---- MODULE Spec2Model ----
(***************************************************************************)
(* GitPay: the call-data classifier (parseGitPayTransactionData), the      *)
(* donation page's call-data builder (createGitPayTransactionData) and the *)
(* transfer aggregator (fetchTransactionsForAddress) of src/src/utils.ts.  *)
(*                                                                         *)
(* A JavaScript string is a sequence of character codes (ASCII for the     *)
(* call-data, Unicode code points for a decoded memo).  `undefined` is the *)
(* value Undefined, which is no string.                                    *)
(***************************************************************************)
EXTENDS Integers, Sequences, FiniteSets, TLC

VARIABLES
    \* classifier / builder
    cpc,        \* "call" | "built" | "parsed"
    args,       \* arguments of createGitPayTransactionData, or NoArgs
    data,       \* the call-data handed to parseGitPayTransactionData
    parsed,     \* its result, or Undefined before the call
    \* fetchTransactionsForAddress
    fpc,                \* where the call stands
    limit,              \* its argument
    toResponse,         \* what the query for transfers TO the address gave
    fromResponse,       \* what the query for transfers FROM the address gave
    pyusdTransfers,     \* merged, de-duplicated, PYUSD only
    idx,                \* position of the loop in pyusdTransfers.slice(0, limit)
    gitPayTransactions, \* the entries pushed so far
    lookups,            \* hashes handed to client.getTransaction, in order
    error,              \* what the call was rejected with
    result,             \* what the call resolved with
    \* the request handlers of src/src/routes.ts and resolveAddressesToENS
    hpc,                \* where the handler stands
    request,            \* the handler and its query parameters
    resolvedAddress,    \* the address the request is about
    ensName,            \* the display name, or Null
    calls,              \* the calls made to the upstream, in order
    transactions,       \* what fetchTransactionsForAddress resolved with
    stats,              \* the statistics computed from transactions
    responses,          \* the responses sent, in order
    ensI,               \* resolveAddressesToENS: the loop index i
    ensPending,         \* positions of the batch whose lookup is in flight
    ensResults,         \* what the lookups of the batch gave
    ensMap,             \* the map built so far, as a set of <<address, name>>
    \* the donation page: donatePYUSD and waitForTransaction
    dpc,                \* where the running donatePYUSD call stands, or "idle"
    hasWallet,          \* window.ethereum is defined
    btnDisabled,        \* btn.disabled
    shown,              \* the message showStatus displays
    attempt,            \* number of clicks that called donatePYUSD
    inProgress,         \* calls of donatePYUSD that have not ended
    sends,              \* the attempt of every eth_sendTransaction issued
    settled,            \* the promise of waitForTransaction
    checkInterval,      \* the interval timer is set
    elapsed,            \* periods of 2000 ms passed since waitForTransaction
    inFlight,           \* eth_getTransactionReceipt requests not yet answered
    timeoutFired,       \* the callback of setTimeout has run
    seen                \* receipts and errors the polls have observed

cvars == <<cpc, args, data, parsed>>
fvars == <<fpc, limit, toResponse, fromResponse, pyusdTransfers, idx,
           gitPayTransactions, lookups, error, result>>
hvars == <<hpc, request, resolvedAddress, ensName, calls, transactions, stats,
           responses, ensI, ensPending, ensResults, ensMap>>
dvars == <<dpc, hasWallet, btnDisabled, shown, attempt, inProgress, sends, settled,
           checkInterval, elapsed, inFlight, timeoutFired, seen>>
vars == <<cpc, args, data, parsed, fpc, limit, toResponse, fromResponse,
          pyusdTransfers, idx, gitPayTransactions, lookups, error, result,
          hpc, request, resolvedAddress, ensName, calls, transactions, stats,
          responses, ensI, ensPending, ensResults, ensMap,
          dpc, hasWallet, btnDisabled, shown, attempt, inProgress, sends, settled,
          checkInterval, elapsed, inFlight, timeoutFired, seen>>

----------------------------------------------------------------------------
(* JavaScript values and string primitives *)

Undefined == <<-1>>

Null == <<-2>>

\* a query parameter that is no string: an array or an object
NotAString == <<-3>>

Min(a, b) == IF a < b THEN a ELSE b

\* '0'..'9', 'a'..'f' for a digit 0..15
HexChar(d) == IF d < 10 THEN 48 + d ELSE 87 + d

\* the value of a hexadecimal digit character, -1 for any other character
HexVal(c) ==
    IF c >= 48 /\ c <= 57 THEN c - 48
    ELSE IF c >= 97 /\ c <= 102 THEN c - 87
    ELSE IF c >= 65 /\ c <= 70 THEN c - 55
    ELSE -1

HexStr(digits) == [i \in 1..Len(digits) |-> HexChar(digits[i])]

Repeat(c, n) == [i \in 1..n |-> c]

\* String.prototype.slice(a, b) for 0 <= a, 0 <= b
Slice(s, a, b) == SubSeq(s, a + 1, Min(b, Len(s)))

\* String.prototype.slice(a) for 0 <= a
SliceFrom(s, a) == SubSeq(s, a + 1, Len(s))

\* String.prototype.startsWith
StartsWith(s, p) == Len(s) >= Len(p) /\ SubSeq(s, 1, Len(p)) = p

\* String.prototype.includes: p occurs at some character offset of s
Includes(s, p) ==
    \E i \in 0..(Len(s) - Len(p)) : SubSeq(s, i + 1, i + Len(p)) = p

\* String.prototype.padStart(n, c)
PadStart(s, n, c) == IF Len(s) >= n THEN s ELSE Repeat(c, n - Len(s)) \o s

----------------------------------------------------------------------------
(* Numbers.  A JavaScript Number that parseInt can return is NaN or an     *)
(* integer-valued double; it is kept as its binary digits, most            *)
(* significant first, without leading zeros (<<>> is 0).  An intermediate  *)
(* result is bound as x \in {e}, which evaluates e once.                   *)

NaN == [nan |-> TRUE, neg |-> FALSE, bits |-> <<>>]

Num(neg, bits) == [nan |-> FALSE, neg |-> neg, bits |-> bits]

SetMin(S) == CHOOSE i \in S : \A k \in S : i <= k

SetMax(S) == CHOOSE i \in S : \A k \in S : k <= i

\* the digit sequence without its leading zeros
StripZeros(ds) ==
    CHOOSE r \in
        { IF nz = {} THEN <<>> ELSE SubSeq(ds, SetMin(nz), Len(ds)) :
            nz \in {{i \in 1..Len(ds) : ds[i] # 0}} } : TRUE

\* long division of the digit sequence ds (base `base`) by `by`, from digit i
\* on with remainder rem: <<quotient digits, remainder>>
RECURSIVE LongDiv(_, _, _, _, _, _)
LongDiv(ds, base, by, i, rem, acc) ==
    IF i > Len(ds) THEN <<acc, rem>>
    ELSE CHOOSE r \in
             { LongDiv(ds, base, by, i + 1, cur % by, Append(acc, cur \div by)) :
                 cur \in {rem * base + ds[i]} } : TRUE

\* the digits in base `to` of the number whose digits in base `from` are ds
RECURSIVE ToBase(_, _, _)
ToBase(ds, from, to) ==
    CHOOSE r \in
        { IF n = <<>> THEN <<>>
          ELSE CHOOSE r2 \in
                   { Append(ToBase(qr[1], from, to), qr[2]) :
                       qr \in {LongDiv(n, from, to, 1, 0, <<>>)} } : TRUE :
            n \in {StripZeros(ds)} } : TRUE

\* digits + 1 in the given base
IncDigits(ds, base) ==
    CHOOSE r \in
        { IF low = {} THEN <<1>> \o [i \in 1..Len(ds) |-> 0]
          ELSE CHOOSE r2 \in
                   { [i \in 1..Len(ds) |->
                        IF i < p THEN ds[i] ELSE IF i = p THEN ds[i] + 1 ELSE 0] :
                       p \in {SetMax(low)} } : TRUE :
            low \in {{i \in 1..Len(ds) : ds[i] < base - 1}} } : TRUE

\* the bits of a sequence of digits of base 2^w
BitsOfDigits(ds, w) ==
    [i \in 1..(w * Len(ds)) |->
        (ds[((i - 1) \div w) + 1] \div (2 ^ (w - 1 - ((i - 1) % w)))) % 2]

RECURSIVE BitsValue(_, _, _)
BitsValue(bits, from, to) ==
    IF to < from THEN 0
    ELSE 2 * BitsValue(bits, from, to - 1) + bits[to]

\* the digits in base 2^w of a bit sequence
DigitsOfBits(bits, w) ==
    CHOOSE r \in
        { StripZeros([i \in 1..(Len(b) \div w) |->
                        BitsValue(b, (i - 1) * w + 1, i * w)]) :
            b \in {[i \in 1..((w - (Len(bits) % w)) % w) |-> 0] \o bits} } : TRUE

\* the digits in base 10^4 of a decimal digit sequence
GroupDecimal(ds) ==
    CHOOSE r \in
        { [i \in 1..(Len(d) \div 4) |->
             1000 * d[4 * i - 3] + 100 * d[4 * i - 2] + 10 * d[4 * i - 1] + d[4 * i]] :
            d \in {[i \in 1..((4 - (Len(ds) % 4)) % 4) |-> 0] \o ds} } : TRUE

\* the decimal digits of a digit sequence in base 10^4
UngroupDecimal(gs) ==
    StripZeros([i \in 1..(4 * Len(gs)) |->
                  (gs[((i - 1) \div 4) + 1] \div (10 ^ (3 - ((i - 1) % 4)))) % 10])

\* the binary digits of a digit sequence in base 10 or 16
ToBits(ds, base) ==
    IF base = 16 THEN StripZeros(BitsOfDigits(ds, 4))
    ELSE CHOOSE r \in
             { CHOOSE r2 \in
                   { StripZeros(BitsOfDigits(limbs, 12)) :
                       limbs \in {ToBase(groups, 10000, 4096)} } : TRUE :
                 groups \in {GroupDecimal(ds)} } : TRUE

\* the digits in base 10 or 16 of a bit sequence
FromBits(bits, base) ==
    IF base = 16 THEN DigitsOfBits(bits, 4)
    ELSE CHOOSE r \in
             { CHOOSE r2 \in
                   { UngroupDecimal(groups) :
                       groups \in {ToBase(limbs, 4096, 10000)} } : TRUE :
                 limbs \in {DigitsOfBits(bits, 12)} } : TRUE

\* bits + 1
Increment(bits) == IncDigits(bits, 2)

\* the integer rounded to the nearest double (53 significant bits, ties to even)
RoundToDouble(bits) ==
    IF Len(bits) <= 53 THEN bits
    ELSE CHOOSE r \in
             { (IF bits[54] = 1 /\ (top[53] = 1 \/ \E i \in 55..Len(bits) : bits[i] = 1)
                THEN Increment(top) ELSE top)
               \o [i \in 1..(Len(bits) - 53) |-> 0] :
                 top \in {SubSeq(bits, 1, 53)} } : TRUE

\* bits - 1, for bits > 0
Decrement(bits) ==
    CHOOSE r \in
        { StripZeros([i \in 1..Len(bits) |->
                        IF i < p THEN bits[i] ELSE IF i = p THEN 0 ELSE 1]) :
            p \in {SetMax({i \in 1..Len(bits) : bits[i] = 1})} } : TRUE

\* a > b for digit sequences without leading zeros
DigitsGT(a, b) ==
    \/ Len(a) > Len(b)
    \/ /\ Len(a) = Len(b)
       /\ \E i \in 1..Len(a) :
            a[i] > b[i] /\ \A k \in 1..(i - 1) : a[k] = b[k]

\* floor(d / 10^j) for a decimal digit sequence d
DropDigits(d, j) == IF j >= Len(d) THEN <<>> ELSE SubSeq(d, 1, Len(d) - j)

\* d + 1 for a decimal digit sequence d
DecInc(d) == IncDigits(d, 10)

\* The integers that round to the double x = bits (more than 53 bits) are
\* a1 + 1 .. b: half the gap to the neighbouring doubles on each side, the
\* ends included when the mantissa is even; <<a1, b>> in binary.
RoundingInterval(bits) ==
    CHOOSE r \in
        { CHOOSE r2 \in
              { <<IF m[53] = 0 /\ ~(pow2 /\ Len(bits) = 54) THEN Decrement(lo) ELSE lo,
                  IF m[53] = 0 THEN hi ELSE Decrement(hi)>> :
                  pow2 \in {\A i \in 2..53 : m[i] = 0},
                  hi \in {m \o <<1>> \o [i \in 1..(Len(bits) - 54) |-> 0]},
                  lo \in {IF \E i \in 2..53 : m[i] = 1
                          THEN Decrement(m) \o <<1>> \o [i \in 1..(Len(bits) - 54) |-> 0]
                          ELSE IF Len(bits) >= 55
                          THEN Decrement(m) \o <<1, 1>> \o [i \in 1..(Len(bits) - 55) |-> 0]
                          ELSE Decrement(bits)} } : TRUE :
            m \in {SubSeq(bits, 1, 53)} } : TRUE

\* the digits s closest to x = xD among the multiples of 10^j in aD + 1 .. bD
ClosestMultiple(xD, aD, bD, j) ==
    CHOOSE r \in
        { CHOOSE r2 \in
              { IF DigitsGT(above, DropDigits(bD, j)) THEN below
                ELSE IF ~DigitsGT(below, DropDigits(aD, j)) THEN above
                ELSE IF rem = <<5>> \o [i \in 1..(j - 1) |-> 0]
                     THEN (IF below[Len(below)] % 2 = 0 THEN below ELSE above)
                ELSE IF rem[1] >= 5 THEN above
                ELSE below :
                  above \in {DecInc(below)} } : TRUE :
            below \in {DropDigits(xD, j)},
            rem \in {SubSeq(xD, Len(xD) - j + 1, Len(xD))} } : TRUE

\* The shortest decimal that reads back as the double x > 0 (bits, an integer
\* double): <<s, j>>, the digits s and the count j of zeros after them.
\* ECMAScript Number::toString step 5: k as small as possible, then s closest
\* to x, then s even.
ShortestDecimal(bits) ==
    IF Len(bits) <= 53 THEN <<FromBits(bits, 10), 0>>
    ELSE CHOOSE r \in
        { CHOOSE r2 \in
            { CHOOSE r3 \in
                { IF j = 0 THEN <<xD, 0>> ELSE <<ClosestMultiple(xD, aD, bD, j), j>> :
                    j \in {SetMax({i \in 0..Len(bD) :
                                     DigitsGT(DropDigits(bD, i), DropDigits(aD, i))})} }
                : TRUE :
                xD \in {FromBits(bits, 10)},
                aD \in {FromBits(ab[1], 10)},
                bD \in {FromBits(ab[2], 10)} } : TRUE :
            ab \in {RoundingInterval(bits)} } : TRUE

DigitChars(ds) == [i \in 1..Len(ds) |-> HexChar(ds[i])]

\* the decimal digits of a natural number that fits TLC's integers
RECURSIVE NatDigits(_)
NatDigits(n) == IF n < 10 THEN <<n>> ELSE Append(NatDigits(n \div 10), n % 10)

\* digits s followed by j zeros, as Number::toString writes them: in full up
\* to 21 digits, and d.ddde+n beyond
FormatDecimal(s, j) ==
    IF Len(s) + j <= 21 THEN DigitChars(s) \o [i \in 1..j |-> 48]
    ELSE <<HexChar(s[1])>>
         \o (IF Len(s) > 1 THEN <<46>> \o DigitChars(SubSeq(s, 2, Len(s))) ELSE <<>>)
         \o <<101, 43>> \o DigitChars(NatDigits(Len(s) + j - 1))

\* Number.prototype.toString(radix) for radix 10 and 16
NumberToString(x, radix) ==
    IF x.nan THEN <<78, 97, 78>>
    ELSE IF x.bits = <<>> THEN <<48>>
    ELSE (IF x.neg THEN <<45>> ELSE <<>>)
         \o (IF radix # 10 THEN DigitChars(FromBits(x.bits, radix))
             ELSE CHOOSE r \in
                      { FormatDecimal(sj[1], sj[2]) :
                          sj \in {ShortestDecimal(x.bits)} } : TRUE)

\* StrWhiteSpaceChar: WhiteSpace and LineTerminator
WhiteSpace(c) ==
    \/ c \in {9, 10, 11, 12, 13, 32, 160, 5760, 8232, 8233, 8239, 8287, 12288, 65279}
    \/ (c >= 8192 /\ c <= 8202)

TrimStart(s) ==
    CHOOSE r \in
        { IF keep = {} THEN <<>> ELSE SubSeq(s, SetMin(keep), Len(s)) :
            keep \in {{i \in 1..Len(s) : ~WhiteSpace(s[i])}} } : TRUE

TrimEnd(s) ==
    CHOOSE r \in
        { IF keep = {} THEN <<>> ELSE SubSeq(s, 1, SetMax(keep)) :
            keep \in {{i \in 1..Len(s) : ~WhiteSpace(s[i])}} } : TRUE

\* String.prototype.trim
Trim(s) == CHOOSE r \in { TrimEnd(t) : t \in {TrimStart(s)} } : TRUE

\* the longest prefix of s made of digits of the radix, as digit values
DigitPrefix(s, radix) ==
    CHOOSE r \in
        { [i \in 1..(IF bad = {} THEN Len(s) ELSE SetMin(bad) - 1) |-> HexVal(s[i])] :
            bad \in {{i \in 1..Len(s) : HexVal(s[i]) < 0 \/ HexVal(s[i]) >= radix}} }
        : TRUE

\* the sign, the radix and the digits parseInt reads: steps 1 to 11 of
\* parseInt(string, radix), for radix 16 and for no radix (0)
ParseIntDigits(str, radix) ==
    CHOOSE r \in
        { CHOOSE r2 \in
            { CHOOSE r3 \in
                { [neg |-> s0 # <<>> /\ s0[1] = 45,
                   radix |-> rr,
                   z |-> DigitPrefix(IF rr = 16 /\ Len(s1) >= 2 /\ s1[1] = 48
                                        /\ s1[2] \in {120, 88}
                                     THEN SliceFrom(s1, 2) ELSE s1, rr)] :
                    rr \in {IF radix # 0 THEN radix
                            ELSE IF Len(s1) >= 2 /\ s1[1] = 48 /\ s1[2] \in {120, 88}
                            THEN 16 ELSE 10} } : TRUE :
                s1 \in {IF s0 # <<>> /\ s0[1] \in {43, 45} THEN Tail(s0) ELSE s0} }
            : TRUE :
            s0 \in {TrimStart(str)} } : TRUE

\* parseInt(str, radix)
parseInt(str, radix) ==
    CHOOSE r \in
        { IF p.z = <<>> THEN NaN
          ELSE CHOOSE r2 \in
                   { Num(p.neg, RoundToDouble(bits)) :
                       bits \in {ToBits(p.z, p.radix)} } : TRUE :
            p \in {ParseIntDigits(str, radix)} } : TRUE

----------------------------------------------------------------------------
(* Buffer.from(hex, 'hex') and Buffer.toString('utf8') *)

\* Buffer.from(s, 'hex'): the bytes of the leading well-formed hex pairs
BufferFromHex(s) ==
    CHOOSE r \in
        { [i \in 1..(IF bad = {} THEN Len(s) \div 2 ELSE SetMin(bad) - 1) |->
             16 * HexVal(s[2 * i - 1]) + HexVal(s[2 * i])] :
            bad \in {{i \in 1..(Len(s) \div 2) :
                        HexVal(s[2 * i - 1]) < 0 \/ HexVal(s[2 * i]) < 0}} } : TRUE

\* b[j] is a byte in lo..hi
Continues(b, j, lo, hi) == j <= Len(b) /\ b[j] >= lo /\ b[j] <= hi

\* the number of bytes that follow the lead byte c of a multi-byte sequence
Utf8Needed(c) ==
    IF c >= 194 /\ c <= 223 THEN 1
    ELSE IF c >= 224 /\ c <= 239 THEN 2
    ELSE IF c >= 240 /\ c <= 244 THEN 3
    ELSE 0

\* UTF-8 decoding with U+FFFD for every maximal ill-formed subsequence;
\* the result is the sequence of code points
RECURSIVE Utf8Decode(_, _)
Utf8Decode(b, i) ==
    IF i > Len(b) THEN <<>>
    ELSE IF b[i] < 128 THEN <<b[i]>> \o Utf8Decode(b, i + 1)
    ELSE IF Utf8Needed(b[i]) = 0
            \/ ~Continues(b, i + 1,
                          IF b[i] = 224 THEN 160 ELSE IF b[i] = 240 THEN 144 ELSE 128,
                          IF b[i] = 237 THEN 159 ELSE IF b[i] = 244 THEN 143 ELSE 191)
         THEN <<65533>> \o Utf8Decode(b, i + 1)
    ELSE IF Utf8Needed(b[i]) = 1
         THEN <<(b[i] - 192) * 64 + (b[i + 1] - 128)>> \o Utf8Decode(b, i + 2)
    ELSE IF ~Continues(b, i + 2, 128, 191)
         THEN <<65533>> \o Utf8Decode(b, i + 2)
    ELSE IF Utf8Needed(b[i]) = 2
         THEN <<(b[i] - 224) * 4096 + (b[i + 1] - 128) * 64 + (b[i + 2] - 128)>>
              \o Utf8Decode(b, i + 3)
    ELSE IF ~Continues(b, i + 3, 128, 191)
         THEN <<65533>> \o Utf8Decode(b, i + 3)
    ELSE <<(b[i] - 240) * 262144 + (b[i + 1] - 128) * 4096
           + (b[i + 2] - 128) * 64 + (b[i + 3] - 128)>>
         \o Utf8Decode(b, i + 4)

\* String.prototype.replace(/\0/g, '')
RemoveNul(s) ==
    CHOOSE r \in
        { [n \in 1..Cardinality(keep) |->
             s[CHOOSE i \in keep : Cardinality({k \in keep : k <= i}) = n]] :
            keep \in {{i \in 1..Len(s) : s[i] # 0}} } : TRUE

----------------------------------------------------------------------------
(* The classifier: src/src/utils.ts *)

\* '0x4749545041590000000000000000000000000000000000000000000000000000'
GITPAY_IDENTIFIER ==
    <<48, 120>> \o HexStr(<<4, 7, 4, 9, 5, 4, 5, 0, 4, 1, 5, 9>>) \o Repeat(48, 52)

\* '0xa9059cbb'
transferSignature == <<48, 120>> \o HexStr(<<10, 9, 0, 5, 9, 12, 11, 11>>)

\* only the six bytes "GITPAY" are looked for
containsGitPayPrefix(d) == Includes(d, Slice(GITPAY_IDENTIFIER, 2, 14))

containsGitPayIdentifier(d) == Includes(d, SliceFrom(GITPAY_IDENTIFIER, 2))

\* parseInt(amountHex, 16).toString()
parseAmount(amountHex) ==
    CHOOSE r \in { NumberToString(n, 10) : n \in {parseInt(amountHex, 16)} } : TRUE

\* memoBytes.toString('utf8').replace(/\0/g, '').trim() of Buffer.from(memoHex, 'hex')
memoText(memoHex) ==
    CHOOSE r \in
        { CHOOSE r2 \in
            { CHOOSE r3 \in { Trim(t) : t \in {RemoveNul(str)} } : TRUE :
                str \in {Utf8Decode(bytes, 1)} } : TRUE :
            bytes \in {BufferFromHex(memoHex)} } : TRUE

\* the empty memo stays ''
emptyMemoKept(memo) == memo

\* if (memo === '') memo = undefined
emptyMemoDropped(memo) == IF memo = <<>> THEN Undefined ELSE memo

\* the memo is read from the bytes that follow the 32-byte word
decodeMemoAfterTag(d) ==
    IF Len(d) > 202
    THEN CHOOSE r \in
             { emptyMemoDropped(memo) : memo \in {memoText(SliceFrom(d, 202))} } : TRUE
    ELSE Undefined

\* the memo of tagged call-data: the 26 bytes after "GITPAY" in the 32-byte
\* word at 138..202
decodeMemo(d) ==
    IF Len(d) >= 202
    THEN CHOOSE r \in
             { IF StartsWith(identifierHex, Slice(GITPAY_IDENTIFIER, 2, 14))
                  /\ SliceFrom(identifierHex, 12) # <<>>
                  /\ SliceFrom(identifierHex, 12) # Repeat(48, 52)
               THEN CHOOSE r2 \in
                        { emptyMemoDropped(memo) :
                            memo \in {memoText(SliceFrom(identifierHex, 12))} } : TRUE
               ELSE Undefined :
                 identifierHex \in {Slice(d, 138, 202)} } : TRUE
    ELSE Undefined

NotGitPay ==
    [isGitPay |-> FALSE, recipient |-> Undefined, amount |-> Undefined,
     memo |-> Undefined]

\* the length of the call-data is not looked at
decodeTransferAnyLength(d) ==
    IF StartsWith(d, transferSignature)
    THEN CHOOSE r \in
             { [recipient |-> <<48, 120>> \o SliceFrom(recipientHex, 24),
                amount |-> parseAmount(amountHex)] :
                 recipientHex \in {Slice(d, 10, 74)},
                 amountHex \in {Slice(d, 74, 138)} } : TRUE
    ELSE [recipient |-> Undefined, amount |-> Undefined]

\* the recipient and the amount of a transfer(address,uint256) call
decodeTransfer(d) ==
    IF StartsWith(d, transferSignature) /\ Len(d) >= 138
    THEN CHOOSE r \in
             { [recipient |-> <<48, 120>> \o SliceFrom(recipientHex, 24),
                amount |-> parseAmount(amountHex)] :
                 recipientHex \in {Slice(d, 10, 74)},
                 amountHex \in {Slice(d, 74, 138)} } : TRUE
    ELSE [recipient |-> Undefined, amount |-> Undefined]

parseGitPayTransactionData(d) ==
    IF d = <<>> THEN NotGitPay
    ELSE IF ~containsGitPayIdentifier(d) THEN NotGitPay
    ELSE CHOOSE r \in
             { [isGitPay |-> TRUE, recipient |-> t.recipient, amount |-> t.amount,
                memo |-> decodeMemo(d)] :
                 t \in {decodeTransfer(d)} } : TRUE

\* the builder without the identifier: the plain transfer call
createTransferOnly(recipientAddress, amountInWei, memo) ==
    transferSignature \o PadStart(SliceFrom(recipientAddress, 2), 64, 48)
    \o PadStart(NumberToString(parseInt(amountInWei, 0), 16), 64, 48)

\* the donation page's builder; memo is not used
createGitPayTransactionData(recipientAddress, amountInWei, memo) ==
    CHOOSE r \in
        { transferSignature \o paddedRecipient \o paddedAmount
          \o SliceFrom(GITPAY_IDENTIFIER, 2) :
            paddedRecipient \in {PadStart(SliceFrom(recipientAddress, 2), 64, 48)},
            paddedAmount \in
                { CHOOSE r2 \in
                      { PadStart(hex, 64, 48) :
                          hex \in { CHOOSE r3 \in
                                        { NumberToString(n, 16) :
                                            n \in {parseInt(amountInWei, 0)} } : TRUE } }
                      : TRUE } } : TRUE

----------------------------------------------------------------------------
(* Call-data and builder arguments the classifier is run on *)

\* a 32-byte word: the hex digits ds, left-padded with '0' to 64 characters
Word(ds) == PadStart(HexStr(ds), 64, 48)

\* the hex pairs of a byte sequence
HexOfBytes(bs) ==
    [i \in 1..(2 * Len(bs)) |->
        HexChar(IF i % 2 = 1 THEN bs[(i + 1) \div 2] \div 16 ELSE bs[i \div 2] % 16)]

TagHex == SliceFrom(GITPAY_IDENTIFIER, 2)

\* "GITPAY" followed by the bytes bs, right-padded with zero bytes to 32 bytes
MemoSlot(bs) ==
    Slice(TagHex, 0, 12) \o HexOfBytes(bs) \o Repeat(48, 52 - 2 * Len(bs))

Selectors ==
    { transferSignature,
      <<48, 120>> \o HexStr(<<0, 9, 5, 14, 10, 7, 11, 3>>),      \* approve(address,uint256)
      <<48, 120, 65, 57, 48, 53, 57, 67, 66, 66>>,                \* '0xA9059CBB'
      HexStr(<<10, 9, 0, 5, 9, 12, 11, 11>>) }                    \* no '0x'

AddressDigits ==
    { <<10, 11, 12>>,
      [i \in 1..40 |-> (i * 7) % 16],
      [i \in 1..64 |-> 15] }

AddressWords ==
    { Word(ds) : ds \in AddressDigits }
    \cup { Repeat(48, 61) \o <<65, 98, 67>> }                     \* '0...0AbC'

AmountDigits ==
    { <<>>, <<10>>, <<15, 4, 2, 4, 0>>,
      <<1>> \o Repeat(15, 13),                                     \* 2^53 - 1
      <<2>> \o Repeat(0, 13),                                      \* 2^53
      <<2>> \o Repeat(0, 12) \o <<1>>,                             \* 2^53 + 1
      <<2>> \o Repeat(0, 12) \o <<3>>,                             \* 2^53 + 3
      <<1>> \o Repeat(0, 16),                                      \* 2^64
      <<3, 6, 3, 5, 12, 9, 10, 13, 12, 5, 13, 14, 10>> \o Repeat(0, 5),  \* 10^21
      Repeat(15, 64) }                                             \* 2^256 - 1

AmountWords ==
    { Word(ds) : ds \in AmountDigits }
    \cup { Repeat(122, 64),                                        \* 'zz...z'
           <<49, 50, 103>> \o Repeat(48, 61),                      \* '12g0...0'
           <<48, 120, 49, 48>> \o Repeat(48, 60),                  \* '0x100...0'
           <<32, 45, 49>> \o Repeat(48, 61) }                      \* ' -10...0'

Slots ==
    { TagHex,
      Repeat(48, 64),
      MemoSlot(<<104, 105>>),                                      \* "hi"
      MemoSlot(<<32, 104, 105, 0, 33, 32, 9>>),                    \* " hi\0! \t"
      MemoSlot(<<32, 32, 0, 10>>),                                 \* blank
      MemoSlot(<<195, 169, 226, 130, 172, 240, 159, 146, 176>>),   \* 2-, 3-, 4-byte
      MemoSlot(<<255, 104, 226, 130, 237, 160, 128, 192, 128>>),   \* ill-formed
      Slice(TagHex, 0, 12) \o <<104, 105, 122, 122>> \o Repeat(48, 48),  \* non-hex
      Slice(TagHex, 0, 10) \o Repeat(48, 54) }                     \* "GITPA" only

Tails ==
    { <<>>,
      TagHex,
      HexOfBytes(<<104, 105>>),
      <<48>> \o TagHex \o <<48>>,                                  \* odd nibble offset
      HexOfBytes(<<104, 105>>) \o TagHex }

Cuts == {9, 10, 73, 100, 138, 201, 202, 400}

\* the call-data of all shapes: around a transfer call, cut short, and bare
CallDataInputs ==
    { sel \o aw \o mw \o TagHex :
        sel \in {transferSignature}, aw \in AddressWords, mw \in AmountWords }
    \cup { Slice(sel \o Word(<<10, 11, 12>>) \o Word(<<10>>) \o slot \o tail, 0, cut) :
             sel \in Selectors, slot \in Slots, tail \in Tails, cut \in Cuts }
    \cup { <<>>,
           <<48, 120>>,
           TagHex,
           <<48, 120>> \o TagHex,
           <<48, 120, 48>> \o TagHex \o <<48>>,
           <<48, 120, 122, 122>> \o TagHex,
           <<48, 120>> \o Slice(TagHex, 0, 63),
           <<48, 120>> \o Slice(TagHex, 0, 12) \o Repeat(49, 52),
           transferSignature \o TagHex,
           transferSignature \o Word(<<10, 11, 12>>) \o TagHex }

NoArgs == [recipientAddress |-> Undefined, amountInWei |-> Undefined, memo |-> Undefined]

CreateInputs ==
    [ recipientAddress :
        { <<48, 120>> \o HexStr([i \in 1..40 |-> (i * 7) % 16]),
          <<48, 120>> \o Repeat(48, 37) \o <<65, 98, 67>> },
      amountInWei :
        { <<48>>, <<49, 48>>, <<49, 48, 48, 48, 48, 48, 48>>,
          DigitChars(<<9, 0, 0, 7, 1, 9, 9, 2, 5, 4, 7, 4, 0, 9, 9, 1>>),    \* 2^53 - 1
          DigitChars(<<9, 0, 0, 7, 1, 9, 9, 2, 5, 4, 7, 4, 0, 9, 9, 3>>),    \* 2^53 + 1
          <<78, 97, 78>>,                                                    \* 'NaN'
          <<49, 46, 53>> },                                                  \* '1.5'
      memo :
        { Undefined, <<>>, <<104, 105>>, <<104, 105, 32, 0>> } ]

----------------------------------------------------------------------------
(* The classifier as a state machine: one call of the builder and/or the   *)
(* classifier on arguments drawn at the start.                              *)

\* a query that has not been made, and one that has not been answered
NotIssued == [kind |-> "notIssued", transfers |-> <<>>]

Pending == [kind |-> "pending", transfers |-> <<>>]

\* the statistics of a handler that has not computed them
NoStats == [totalReceived |-> 0, totalDonated |-> 0, receivedCount |-> 0, donatedCount |-> 0]

\* the result of a lookup of resolveAddressesToENS that has not settled
NotSettled == [address |-> Undefined, ensName |-> Undefined]

\* the page before its script has run: no click, no promise, no timer
PageFresh ==
    /\ btnDisabled = FALSE
    /\ shown = "none"
    /\ attempt = 0
    /\ inProgress = 0
    /\ sends = <<>>
    /\ settled = "none"
    /\ checkInterval = FALSE
    /\ elapsed = 0
    /\ inFlight = 0
    /\ timeoutFired = FALSE
    /\ seen = {}

\* no donation page is open
PageNotLoaded ==
    /\ dpc = "off"
    /\ hasWallet = FALSE
    /\ PageFresh

ClassifyInit ==
    /\ cpc = "call"
    /\ parsed = Undefined
    /\ \/ args = NoArgs /\ data \in CallDataInputs
       \/ args \in CreateInputs /\ data = <<>>
    /\ fpc = "off"
    /\ limit = 0
    /\ toResponse = NotIssued
    /\ fromResponse = NotIssued
    /\ pyusdTransfers = <<>>
    /\ idx = 0
    /\ gitPayTransactions = <<>>
    /\ lookups = <<>>
    /\ error = "none"
    /\ result = Undefined
    /\ hpc = "off"
    /\ request = Undefined
    /\ resolvedAddress = Undefined
    /\ ensName = Null
    /\ calls = <<>>
    /\ transactions = <<>>
    /\ stats = NoStats
    /\ responses = <<>>
    /\ ensI = 0
    /\ ensPending = {}
    /\ ensResults = <<>>
    /\ ensMap = {}
    /\ PageNotLoaded

\* the donation page builds the call-data of its transaction
Create ==
    /\ cpc = "call"
    /\ args # NoArgs
    /\ data' = createGitPayTransactionData(args.recipientAddress, args.amountInWei,
                                           args.memo)
    /\ cpc' = "built"
    /\ UNCHANGED <<args, parsed>>
    /\ UNCHANGED fvars
    /\ UNCHANGED <<hvars, dvars>>

\* parseGitPayTransactionData(data)
Parse ==
    /\ \/ cpc = "call" /\ args = NoArgs
       \/ cpc = "built"
    /\ parsed' = parseGitPayTransactionData(data)
    /\ cpc' = "parsed"
    /\ UNCHANGED <<args, data>>
    /\ UNCHANGED fvars
    /\ UNCHANGED <<hvars, dvars>>

ClassifyNext == Create \/ Parse

SpecClassify == ClassifyInit /\ [][ClassifyNext]_vars

----------------------------------------------------------------------------
(* Properties of the classifier and the builder *)

\* the 64 characters of the tag stand at character offset i of d
HasTagAt(d, i) == i + 64 <= Len(d) /\ \A k \in 1..64 : d[i + k] = TagHex[k]

HasTag(d) == \E i \in 0..(Len(d) - 64) : HasTagAt(d, i)

\* the 32 bytes of the tag are whole bytes of the payload after '0x'
HasTagBytes(d) ==
    \E i \in 0..(Len(d) - 64) :
        HasTagAt(d, i) /\ (i - (IF StartsWith(d, <<48, 120>>) THEN 2 ELSE 0)) % 2 = 0

AllAbsent(p) ==
    p.recipient = Undefined /\ p.amount = Undefined /\ p.memo = Undefined

\* selector, two words of 64 hex digits, and the tag
WellFormedTransfer(d) ==
    /\ Len(d) = 202
    /\ StartsWith(d, transferSignature)
    /\ \A i \in 11..138 : HexVal(d[i]) >= 0
    /\ Slice(d, 138, 202) = TagHex

\* the decimal string of the unsigned integer a word of hex digits writes
ExactDecimal(word) ==
    CHOOSE r \in
        { IF bits = <<>> THEN <<48>> ELSE DigitChars(FromBits(bits, 10)) :
            bits \in {StripZeros(BitsOfDigits([i \in 1..Len(word) |-> HexVal(word[i])], 4))} }
        : TRUE

\* empty, shorter than a transfer call, without '0x', or not hexadecimal
Malformed(d) ==
    \/ Len(d) < 138
    \/ ~StartsWith(d, <<48, 120>>)
    \/ \E i \in 3..Len(d) : HexVal(d[i]) < 0

\* C1: call-data that does not contain the 64-character tag is classified
\* isGitPay = false, with recipient, amount and memo absent.
C1_UntaggedIsNotGitPay ==
    (cpc = "parsed" /\ ~HasTag(data)) => (parsed.isGitPay = FALSE /\ AllAbsent(parsed))

C1_Witness ==
    /\ cpc = "parsed"
    /\ StartsWith(data, transferSignature)
    /\ Len(data) >= 202
    /\ Slice(data, 138, 150) = Slice(TagHex, 0, 12)
    /\ ~HasTag(data)
    /\ parsed.isGitPay = FALSE

\* C2: for a transfer call followed by the tag, the classifier returns
\* isGitPay = true, the last 20 bytes of the address word as recipient, and the
\* exact decimal string of the amount word, whatever its value.
C2_TransferDecodedExactly ==
    (cpc = "parsed" /\ WellFormedTransfer(data)) =>
        /\ parsed.isGitPay = TRUE
        /\ parsed.recipient = <<48, 120>> \o Slice(data, 34, 74)
        /\ parsed.amount = ExactDecimal(Slice(data, 74, 138))

\* what the round trip is to give back for the memo handed to the builder
MemoExpected(memo) ==
    IF memo = Undefined THEN Undefined
    ELSE CHOOSE r \in
             { IF t = <<>> THEN Undefined ELSE t : t \in {Trim(RemoveNul(memo))} } : TRUE

\* C3: building call-data from a recipient, an amount and a memo and parsing
\* it gives back the recipient, the amount and the (trimmed) memo.
C3_RoundTrip ==
    (cpc = "parsed" /\ args # NoArgs) =>
        /\ parsed.isGitPay = TRUE
        /\ parsed.recipient = args.recipientAddress
        /\ parsed.amount = args.amountInWei
        /\ parsed.memo = MemoExpected(args.memo)

\* C4 as stated: malformed or truncated call-data is classified
\* isGitPay = false.
C4_MalformedIsNotGitPay ==
    (cpc = "parsed" /\ Malformed(data)) => parsed.isGitPay = FALSE

\* C4 as amended: every call returns a result; malformed or truncated
\* call-data is classified isGitPay = false with no fields unless it still
\* contains the whole 64-character tag, and then isGitPay = true, with recipient
\* and amount absent when it is shorter than a transfer call or does not start
\* with the transfer selector.
C4_MalformedClassifiedByTag ==
    /\ (cpc = "call" /\ args = NoArgs) => ENABLED Parse
    /\ (cpc = "parsed" /\ Malformed(data)) =>
          /\ parsed.isGitPay = HasTag(data)
          /\ ~parsed.isGitPay => AllAbsent(parsed)
          /\ (Len(data) < 138 \/ ~StartsWith(data, transferSignature)) =>
                (parsed.recipient = Undefined /\ parsed.amount = Undefined)

C4_Witness ==
    /\ cpc = "parsed"
    /\ Len(data) < 138
    /\ StartsWith(data, transferSignature)
    /\ parsed.isGitPay = TRUE
    /\ parsed.recipient = Undefined

\* C5: call-data is classified as tagged only if the 32 bytes of the tag are
\* whole bytes of the payload.
C5_TagMatchedOnWholeBytes ==
    (cpc = "parsed" /\ parsed.isGitPay) => HasTagBytes(data)

\* C6 as stated: for a transfer call with the tag and more call-data after it,
\* the memo is the text of the bytes that follow the tag.
C6_MemoFollowsTag ==
    (cpc = "parsed" /\ parsed.isGitPay /\ Len(data) > 202 /\ HasTagAt(data, 138)) =>
        parsed.memo = emptyMemoDropped(memoText(SliceFrom(data, 202)))

\* the text of the 26 bytes after "GITPAY" in the 32-byte word at 138..202
MemoInsideWord(d) ==
    IF /\ Len(d) >= 202
       /\ Slice(d, 138, 150) = Slice(TagHex, 0, 12)
       /\ \E i \in 151..202 : d[i] # 48
    THEN CHOOSE r \in
             { IF t = <<>> THEN Undefined ELSE t : t \in {memoText(Slice(d, 150, 202))} }
             : TRUE
    ELSE Undefined

\* C6 as amended: the memo is never read from the bytes after the 32-byte tag.
\* It is the text (UTF-8, NUL bytes stripped, trimmed, absent when empty) of the
\* 26 bytes that follow "GITPAY" inside the 32-byte word at hex offset 138..202,
\* when the call-data has at least 202 characters, that word starts with
\* "GITPAY" and its other 26 bytes are not all zero; otherwise it is absent.
C6_MemoInsideIdentifierWord ==
    (cpc = "parsed" /\ parsed.isGitPay) => parsed.memo = MemoInsideWord(data)

C6_Witness ==
    /\ cpc = "parsed"
    /\ Len(data) > 202
    /\ HasTagAt(data, 202)
    /\ parsed.memo = <<104, 105>>

\* C7: the memo of a result is absent or a non-empty string; when the word at
\* 138..202 is the zero-padded tag itself, it is absent.
C7_MemoAbsentOrNonEmpty ==
    cpc = "parsed" =>
        /\ parsed.memo # <<>>
        /\ (Len(data) >= 202 /\ Slice(data, 138, 202) = TagHex) => parsed.memo = Undefined

C7_Witness ==
    /\ cpc = "parsed"
    /\ parsed.isGitPay = TRUE
    /\ Len(data) >= 202
    /\ Slice(data, 138, 202) = TagHex
    /\ parsed.memo = Undefined

----------------------------------------------------------------------------
(* The aggregator: fetchTransactionsForAddress of src/src/utils.ts *)

\* String.prototype.toLowerCase on ASCII
ToLowerCase(s) == [i \in 1..Len(s) |-> IF s[i] >= 65 /\ s[i] <= 90 THEN s[i] + 32 ELSE s[i]]

\* '0xCaC524BcA292aaade2DF8A05cC58F0a65B1B3bB9'
PYUSD_CONTRACT ==
    <<48, 120, 67, 97, 67, 53, 50, 52, 66, 99, 65, 50, 57, 50, 97, 97, 97, 100, 101,
      50, 68, 70, 56, 65, 48, 53, 99, 67, 53, 56, 70, 48, 97, 54, 53, 66, 49, 66, 51,
      98, 66, 57>>

\* the elements of s at the positions in keep, in their order: Array.filter
SelectSeq2(s, keep) ==
    [n \in 1..Cardinality(keep) |->
        s[CHOOSE i \in keep : Cardinality({k \in keep : k <= i}) = n]]

\* every transfer is kept
keepDuplicates(allTransfers) == allTransfers

\* of the transfers that share a hash the last one is kept
keepLast(allTransfers) ==
    SelectSeq2(allTransfers,
               { i \in 1..Len(allTransfers) :
                   \A j \in (i + 1)..Len(allTransfers) :
                       allTransfers[j].hash # allTransfers[i].hash })

\* allTransfers.filter((t, index, self) => index === self.findIndex(x => x.hash === t.hash))
uniqueTransfers(allTransfers) ==
    SelectSeq2(allTransfers,
               { i \in 1..Len(allTransfers) :
                   \A j \in 1..(i - 1) : allTransfers[j].hash # allTransfers[i].hash })

\* uniqueTransfers.filter(t => t.rawContract?.address?.toLowerCase() === PYUSD_CONTRACT.toLowerCase())
pyusdOnly(transfers) ==
    SelectSeq2(transfers,
               { i \in 1..Len(transfers) :
                   /\ transfers[i].rawContract # Undefined
                   /\ ToLowerCase(transfers[i].rawContract) = ToLowerCase(PYUSD_CONTRACT) })

\* the entries are returned in the order they were pushed
keepPushOrder(entries) == entries

\* gitPayTransactions.sort((a, b) => b.timestamp - a.timestamp): stable, newest first
sortNewestFirst(entries) ==
    [n \in 1..Len(entries) |->
        entries[CHOOSE i \in 1..Len(entries) :
                    Cardinality({ j \in 1..Len(entries) :
                                    \/ entries[j].timestamp > entries[i].timestamp
                                    \/ /\ entries[j].timestamp = entries[i].timestamp
                                       /\ j < i }) = n - 1]]

\* transfer.value ? (parseFloat(transfer.value) * Math.pow(10, decimals || 6)).toString() : '0'
\* for a whole number of tokens; rawContract carries no `decimals`
scaledValue(transfer) ==
    IF transfer.value = 0 THEN <<48>> ELSE DigitChars(NatDigits(transfer.value * 1000000))

\* the value of the transfer event is always taken
eventValue(a, b) == b

\* a || b on strings
OrElse(a, b) == IF a = Undefined \/ a = <<>> THEN b ELSE a

\* the entry pushed for a transfer whose call-data was classified as p
makeEntry(transfer, p) ==
    [hash |-> transfer.hash,
     from |-> transfer.from,
     to |-> transfer.to,
     value |-> scaledValue(transfer),
     blockNumber |-> transfer.blockNum,
     timestamp |-> transfer.blockTimestamp,
     recipient |-> OrElse(p.recipient, transfer.to),
     amount |-> OrElse(p.amount, scaledValue(transfer)),
     memo |-> p.memo]

\* every transfer whose transaction has call-data is pushed
pushAlways(entries, transfer, p) == Append(entries, makeEntry(transfer, p))

\* if (parsed.isGitPay) push
pushIfGitPay(entries, transfer, p) ==
    IF p.isGitPay THEN Append(entries, makeEntry(transfer, p)) ELSE entries

----------------------------------------------------------------------------
(* The upstream of the aggregator: what the two alchemy_getAssetTransfers   *)
(* queries and client.getTransaction can answer                             *)

AddrA == <<48, 120>> \o HexStr([i \in 1..40 |-> (i * 7) % 16])

AddrB == <<48, 120>> \o Repeat(48, 37) \o <<97, 98, 99>>

AddrC == <<48, 120>> \o Repeat(49, 40)

\* the address the dashboard is asked for
address == AddrA

\* rawContract.address as the upstream writes it, and that of another token
PyusdLower == ToLowerCase(PYUSD_CONTRACT)

OtherToken == <<48, 120>> \o Repeat(54, 40)

\* an element of result.transfers; value in whole tokens, blockTimestamp as
\* the milliseconds new Date(metadata.blockTimestamp).getTime() gives
Transfer(hash, from, to, value, rawContract, blockNum, blockTimestamp) ==
    [hash |-> hash, from |-> from, to |-> to, value |-> value,
     rawContract |-> rawContract, blockNum |-> blockNum,
     blockTimestamp |-> blockTimestamp]

TransferPool ==
    { Transfer("h1", AddrB, AddrA, 5, PyusdLower, 30, 3),
      Transfer("h1", AddrA, AddrC, 7, PyusdLower, 30, 3),     \* second event of h1
      Transfer("h2", AddrA, AddrB, 1, PYUSD_CONTRACT, 10, 1),
      Transfer("h4", AddrC, AddrA, 2, PyusdLower, 40, 4),
      Transfer("h5", AddrC, AddrA, 3, PyusdLower, 50, 5),
      Transfer("h6", AddrC, AddrA, 4, PyusdLower, 31, 3),
      Transfer("h7", AddrA, AddrC, 0, PyusdLower, 20, 2),
      Transfer("h1", AddrC, AddrA, 9, OtherToken, 30, 3) }    \* another token moved by h1

\* sequences over S of length at most n
SeqsUpTo(S, n) == UNION { [1..k -> S] : k \in 0..n }

\* the call-data of the transactions on chain
TaggedToA == createGitPayTransactionData(AddrA, <<53, 48, 48, 48, 48, 48, 48>>, Undefined)

TaggedWithMemo ==
    transferSignature \o Word(<<10, 11, 12>>) \o Word(<<15, 4, 2, 4, 0>>)
    \o MemoSlot(<<104, 105>>) \o TagHex

PlainTransfer == transferSignature \o Word(<<10, 11, 12>>) \o Word(<<15, 4, 2, 4, 0>>)

TagOnly == <<48, 120>> \o TagHex

\* the transactions of an address with more than 10 tagged PYUSD transfers:
\* donations it received and donations it made
ReceivedHashes ==
    <<"r01", "r02", "r03", "r04", "r05", "r06", "r07", "r08", "r09", "r10", "r11">>

DonatedHashes ==
    <<"d01", "d02", "d03", "d04", "d05", "d06", "d07", "d08", "d09", "d10", "d11">>

Range(s) == { s[i] : i \in 1..Len(s) }

\* what client.getTransaction({hash}) gives: it throws, or returns a
\* transaction with its input
getTransaction(hash) ==
    CASE hash = "h1" -> [ok |-> TRUE, input |-> TaggedToA]
      [] hash = "h2" -> [ok |-> TRUE, input |-> TaggedWithMemo]
      [] hash = "h4" -> [ok |-> TRUE, input |-> PlainTransfer]
      [] hash = "h5" -> [ok |-> FALSE, input |-> <<>>]
      [] hash = "h6" -> [ok |-> TRUE, input |-> TagOnly]
      [] hash = "h7" -> [ok |-> TRUE, input |-> <<>>]
      [] hash \in Range(ReceivedHashes) -> [ok |-> TRUE, input |-> TaggedToA]
      [] hash \in Range(DonatedHashes) -> [ok |-> TRUE, input |-> TaggedWithMemo]

\* the transfers the queries return for the address with more than 10 tagged
\* transfers, oldest first
ManyReceived ==
    [i \in 1..Len(ReceivedHashes) |->
        Transfer(ReceivedHashes[i], AddrC, AddrA, 5, PyusdLower, 100 + i, 10 + i)]

ManyDonated ==
    [i \in 1..Len(DonatedHashes) |->
        Transfer(DonatedHashes[i], AddrA, AddrB, 1, PyusdLower, 100 + i, 10 + i)]

\* the two responses carry at most MaxTransfers transfers of the pool
\* together, or one of them carries the transfers of the address with more
\* than 10 tagged transfers
MaxTransfers == 3

\* a small limit, and the one the dashboard passes
SmallLimit == 2

Limits == {SmallLimit, 50}

\* what a query can settle with: transfers, a JSON body with an error field,
\* a JSON body with neither error nor result, a body that is no JSON, or a
\* rejected fetch
Responses(n) ==
    { [kind |-> "result", transfers |-> l] : l \in SeqsUpTo(TransferPool, n) }
    \cup (IF n = MaxTransfers
          THEN { [kind |-> "result", transfers |-> l] : l \in {ManyReceived, ManyDonated} }
          ELSE {})
    \cup { [kind |-> k, transfers |-> <<>>] :
             k \in {"error", "noResult", "notJson", "rejected"} }

----------------------------------------------------------------------------
(* fetchTransactionsForAddress(address, limit) as a state machine *)

FetchInit ==
    /\ fpc = "start"
    /\ limit \in Limits
    /\ toResponse = NotIssued
    /\ fromResponse = NotIssued
    /\ pyusdTransfers = <<>>
    /\ idx = 0
    /\ gitPayTransactions = <<>>
    /\ lookups = <<>>
    /\ error = "none"
    /\ result = Undefined
    /\ hpc = "off"
    /\ request = Undefined
    /\ resolvedAddress = Undefined
    /\ ensName = Null
    /\ calls = <<>>
    /\ transactions = <<>>
    /\ stats = NoStats
    /\ responses = <<>>
    /\ ensI = 0
    /\ ensPending = {}
    /\ ensResults = <<>>
    /\ ensMap = {}
    /\ PageNotLoaded
    /\ cpc = "off"
    /\ args = NoArgs
    /\ data = <<>>
    /\ parsed = Undefined

\* both fetch calls are made, then Promise.all is awaited
IssueQueries ==
    /\ fpc = "start"
    /\ toResponse' = Pending
    /\ fromResponse' = Pending
    /\ fpc' = "awaitQueries"
    /\ UNCHANGED <<limit, pyusdTransfers, idx, gitPayTransactions, lookups, error, result>>
    /\ UNCHANGED cvars
    /\ UNCHANGED <<hvars, dvars>>

\* the query for transfers TO the address settles
ToSettles ==
    /\ fpc = "awaitQueries"
    /\ toResponse = Pending
    /\ \E r \in Responses(MaxTransfers - Len(fromResponse.transfers)) : toResponse' = r
    /\ UNCHANGED <<fpc, limit, fromResponse, pyusdTransfers, idx, gitPayTransactions,
                   lookups, error, result>>
    /\ UNCHANGED cvars
    /\ UNCHANGED <<hvars, dvars>>

\* the query for transfers FROM the address settles
FromSettles ==
    /\ fpc = "awaitQueries"
    /\ fromResponse = Pending
    /\ \E r \in Responses(MaxTransfers - Len(toResponse.transfers)) : fromResponse' = r
    /\ UNCHANGED <<fpc, limit, toResponse, pyusdTransfers, idx, gitPayTransactions,
                   lookups, error, result>>
    /\ UNCHANGED cvars
    /\ UNCHANGED <<hvars, dvars>>

\* Promise.all rejects as soon as one fetch rejects; the catch rethrows
QueryRejected ==
    /\ fpc = "awaitQueries"
    /\ toResponse.kind = "rejected" \/ fromResponse.kind = "rejected"
    /\ fpc' = "rejected"
    /\ error' = "fetch"
    /\ UNCHANGED <<limit, toResponse, fromResponse, pyusdTransfers, idx,
                   gitPayTransactions, lookups, result>>
    /\ UNCHANGED cvars
    /\ UNCHANGED <<hvars, dvars>>

\* only the body of the TO query is checked for an error field
toErrorOnly(toData, fromData) ==
    IF toData.kind = "notJson" \/ fromData.kind = "notJson" THEN "json"
    ELSE IF toData.kind = "error" THEN "to"
    ELSE "none"

\* the failure the two bodies give, the body of the TO query read first:
\* response.json() throws on a body that is no JSON, then the error checks
responseError(toData, fromData) ==
    IF toData.kind = "notJson" \/ fromData.kind = "notJson" THEN "json"
    ELSE IF toData.kind = "error" THEN "to"
    ELSE IF fromData.kind = "error" THEN "from"
    ELSE "none"

\* the transfers are merged as soon as one query has answered
MergeOnFirstResponse ==
    /\ fpc = "awaitQueries"
    /\ toResponse.kind = "result" \/ fromResponse.kind = "result"
    /\ pyusdTransfers' =
          pyusdOnly(uniqueTransfers(toResponse.transfers \o fromResponse.transfers))
    /\ idx' = 1
    /\ fpc' = "loop"
    /\ UNCHANGED <<limit, toResponse, fromResponse, gitPayTransactions, lookups, error,
                   result>>
    /\ UNCHANGED cvars
    /\ UNCHANGED <<hvars, dvars>>

\* both fetches resolved: the bodies are read, checked for errors, merged,
\* de-duplicated by hash and filtered for PYUSD
MergeResponses ==
    /\ fpc = "awaitQueries"
    /\ toResponse.kind \notin {"notIssued", "pending", "rejected"}
    /\ fromResponse.kind \notin {"notIssued", "pending", "rejected"}
    /\ IF responseError(toResponse, fromResponse) # "none"
       THEN /\ fpc' = "rejected"
            /\ error' = responseError(toResponse, fromResponse)
            /\ UNCHANGED <<pyusdTransfers, idx>>
       ELSE /\ pyusdTransfers' =
                   pyusdOnly(uniqueTransfers(toResponse.transfers \o fromResponse.transfers))
            /\ idx' = 1
            /\ fpc' = "loop"
            /\ UNCHANGED error
    /\ UNCHANGED <<limit, toResponse, fromResponse, gitPayTransactions, lookups, result>>
    /\ UNCHANGED cvars
    /\ UNCHANGED <<hvars, dvars>>

\* the lookups of all the remaining transfers are started together
LookupStartAll ==
    /\ fpc = "loop"
    /\ idx <= Min(Len(pyusdTransfers), limit)
    /\ lookups' = lookups \o [n \in 1..(Min(Len(pyusdTransfers), limit) - idx + 1) |->
                                pyusdTransfers[idx + n - 1].hash]
    /\ fpc' = "awaitTx"
    /\ UNCHANGED <<limit, toResponse, fromResponse, pyusdTransfers, idx,
                   gitPayTransactions, error, result>>
    /\ UNCHANGED cvars
    /\ UNCHANGED <<hvars, dvars>>

\* the next transfer of pyusdTransfers.slice(0, limit): client.getTransaction
\* is called and awaited
LookupStart ==
    /\ fpc = "loop"
    /\ idx <= Min(Len(pyusdTransfers), limit)
    /\ lookups' = Append(lookups, pyusdTransfers[idx].hash)
    /\ fpc' = "awaitTx"
    /\ UNCHANGED <<limit, toResponse, fromResponse, pyusdTransfers, idx,
                   gitPayTransactions, error, result>>
    /\ UNCHANGED cvars
    /\ UNCHANGED <<hvars, dvars>>

\* the transaction arrives; it is pushed if its call-data is classified as GitPay
LookupReturns ==
    /\ fpc = "awaitTx"
    /\ getTransaction(pyusdTransfers[idx].hash).ok
    /\ gitPayTransactions' =
          (CHOOSE r \in
              { IF tx.input = <<>> THEN gitPayTransactions
                ELSE pushIfGitPay(gitPayTransactions, pyusdTransfers[idx],
                                  parseGitPayTransactionData(tx.input)) :
                  tx \in {getTransaction(pyusdTransfers[idx].hash)} } : TRUE)
    /\ idx' = idx + 1
    /\ fpc' = "loop"
    /\ UNCHANGED <<limit, toResponse, fromResponse, pyusdTransfers, lookups, error, result>>
    /\ UNCHANGED cvars
    /\ UNCHANGED <<hvars, dvars>>

\* the lookup throws and the call is rejected with it
LookupThrowsAborts ==
    /\ fpc = "awaitTx"
    /\ ~getTransaction(pyusdTransfers[idx].hash).ok
    /\ fpc' = "rejected"
    /\ error' = "lookup"
    /\ UNCHANGED <<limit, toResponse, fromResponse, pyusdTransfers, idx,
                   gitPayTransactions, lookups, result>>
    /\ UNCHANGED cvars
    /\ UNCHANGED <<hvars, dvars>>

\* the lookup throws: catch, continue
LookupThrows ==
    /\ fpc = "awaitTx"
    /\ ~getTransaction(pyusdTransfers[idx].hash).ok
    /\ idx' = idx + 1
    /\ fpc' = "loop"
    /\ UNCHANGED <<limit, toResponse, fromResponse, pyusdTransfers, gitPayTransactions,
                   lookups, error, result>>
    /\ UNCHANGED cvars
    /\ UNCHANGED <<hvars, dvars>>

\* after the loop: sort newest first, keep the first 10, return
Return ==
    /\ fpc = "loop"
    /\ idx > Min(Len(pyusdTransfers), limit)
    /\ result' = Slice(sortNewestFirst(gitPayTransactions), 0, 10)
    /\ fpc' = "resolved"
    /\ UNCHANGED <<limit, toResponse, fromResponse, pyusdTransfers, idx,
                   gitPayTransactions, lookups, error>>
    /\ UNCHANGED cvars
    /\ UNCHANGED <<hvars, dvars>>

FetchNext ==
    \/ IssueQueries
    \/ ToSettles
    \/ FromSettles
    \/ QueryRejected
    \/ MergeResponses
    \/ LookupStart
    \/ LookupReturns
    \/ LookupThrows
    \/ Return

SpecFetch == FetchInit /\ [][FetchNext]_vars

----------------------------------------------------------------------------
(* Properties of the aggregator *)

\* the transfers the two queries returned, TO first
Returned == toResponse.transfers \o fromResponse.transfers

HashesOf(transfers) == { transfers[i].hash : i \in 1..Len(transfers) }

IsPyusd(transfer) == ToLowerCase(transfer.rawContract) = ToLowerCase(PYUSD_CONTRACT)

\* the transaction of hash h can be fetched and its call-data carries the tag
TaggedOnChain(h) ==
    getTransaction(h).ok /\ HasTag(getTransaction(h).input)

\* the hashes of the PYUSD transfers the queries returned
PyusdHashes == { Returned[i].hash : i \in { k \in 1..Len(Returned) : IsPyusd(Returned[k]) } }

\* positions of the entries of the result for hash h
EntriesOf(h) == { i \in 1..Len(result) : result[i].hash = h }

\* C8: the returned list has at most one entry per transaction hash, and a
\* hash returned by both queries with a tagged PYUSD transfer, when neither the
\* limit nor the cap of 10 can cut it off, has exactly one entry.
C8_OneEntryPerHash ==
    fpc = "resolved" =>
        /\ \A h \in HashesOf(Returned) : Cardinality(EntriesOf(h)) <= 1
        /\ \A h \in HashesOf(toResponse.transfers) \cap HashesOf(fromResponse.transfers) :
              (/\ h \in PyusdHashes
               /\ TaggedOnChain(h)
               /\ Cardinality(PyusdHashes) <= Min(limit, 10))
              => Cardinality(EntriesOf(h)) = 1

\* C9: in the returned list an entry with a greater timestamp stands before
\* every entry with a smaller one, whatever the order of the upstream.
C9_NewestFirst ==
    fpc = "resolved" =>
        \A i, j \in 1..Len(result) :
            result[i].timestamp > result[j].timestamp => i < j

C9_Witness ==
    /\ fpc = "resolved"
    /\ Len(result) >= 2
    /\ result # gitPayTransactions
    /\ \E i, j \in 1..Len(result) : result[i].timestamp > result[j].timestamp

\* C10: every entry of the returned list belongs to a transfer whose
\* transaction was looked up and whose call-data carries the tag; a transfer
\* whose call-data is untagged or empty, or whose lookup failed, has no entry.
C10_OnlyTaggedRetained ==
    fpc = "resolved" =>
        /\ \A i \in 1..Len(result) :
              /\ \E k \in 1..Len(lookups) : lookups[k] = result[i].hash
              /\ TaggedOnChain(result[i].hash)
        /\ \A h \in HashesOf(Returned) : ~TaggedOnChain(h) => EntriesOf(h) = {}

C10_Witness ==
    /\ fpc = "resolved"
    /\ \E k \in 1..Len(lookups) : lookups[k] = "h4"
    /\ \E k \in 1..Len(lookups) : lookups[k] \in {"h5", "h7"}
    /\ Len(result) = 1

\* C11: when one of the two queries answers with an error payload, the call
\* never gets past the queries: it is rejected, returns no list and looks up no
\* transaction, whatever the other query returned.
C11_ErrorPayloadRejects ==
    (toResponse.kind = "error" \/ fromResponse.kind = "error") =>
        /\ fpc \in {"awaitQueries", "rejected"}
        /\ result = Undefined
        /\ lookups = <<>>
        /\ gitPayTransactions = <<>>

C11_Witness ==
    /\ fpc = "rejected"
    /\ error = "from"
    /\ fromResponse.kind = "error"
    /\ toResponse.kind = "result"
    /\ Len(toResponse.transfers) >= 1
    /\ result = Undefined

\* the query failed: the fetch rejected, the body is no JSON, it is JSON with
\* neither `error` nor `result.transfers`, or it carries an `error` field
QueryFailed(r) == r.kind \in {"rejected", "notJson", "noResult", "error"}

\* C12: when one of the two queries fails in any of these ways, the call fails
\* as a whole: it never resolves with a list made from part of the event data.
C12_QueryFailureFailsCall ==
    (QueryFailed(toResponse) \/ QueryFailed(fromResponse)) =>
        /\ fpc \in {"awaitQueries", "rejected"}
        /\ result = Undefined

Hashes ==
    {"h1", "h2", "h4", "h5", "h6", "h7"} \cup Range(ReceivedHashes) \cup Range(DonatedHashes)

\* how the call-data of each transaction on chain is classified
Classified ==
    [h \in Hashes |->
        IF getTransaction(h).ok /\ getTransaction(h).input # <<>>
        THEN parseGitPayTransactionData(getTransaction(h).input)
        ELSE NotGitPay]

\* the entries of the tagged transfers among ts, in their order
EntriesFor(ts) ==
    CHOOSE r \in
        { [n \in 1..Len(kept) |-> makeEntry(kept[n], Classified[kept[n].hash])] :
            kept \in { SelectSeq2(ts, { i \in 1..Len(ts) : Classified[ts[i].hash].isGitPay }) } }
        : TRUE

\* the transfers of ts whose transaction can be fetched
WithoutFailing(ts) ==
    SelectSeq2(ts, { i \in 1..Len(ts) : getTransaction(ts[i].hash).ok })

\* the list the call returns for the transfers all of the two queries
OutputOf(all, lim) ==
    CHOOSE r \in
        { Slice(sortNewestFirst(EntriesFor(Slice(p, 0, lim))), 0, 10) :
            p \in { pyusdOnly(uniqueTransfers(all)) } } : TRUE

Answered(r) == r.kind \notin {"notIssued", "pending"}

\* C16: the two queries are issued together, before either is answered, and
\* the merge, the de-duplication and the lookups start only when both have been
\* answered, in whichever order the answers arrive.
C16_MergeAfterBothQueries ==
    /\ toResponse.kind = "notIssued" <=> fromResponse.kind = "notIssued"
    /\ toResponse.kind = "notIssued" <=> fpc = "start"
    /\ (fpc \in {"loop", "awaitTx", "resolved"} \/ pyusdTransfers # <<>> \/ lookups # <<>>)
          => (Answered(toResponse) /\ Answered(fromResponse))

C16_Witness ==
    /\ fpc = "awaitQueries"
    /\ fromResponse.kind = "result"
    /\ Len(fromResponse.transfers) >= 1
    /\ toResponse = Pending
    /\ pyusdTransfers = <<>>
    /\ lookups = <<>>

\* the transfer an entry of the result was made from: the first of its hash
\* among the PYUSD transfers returned
SourceOf(entry) ==
    Returned[CHOOSE i \in 1..Len(Returned) :
                /\ Returned[i].hash = entry.hash
                /\ \A j \in 1..(i - 1) : Returned[j].hash # entry.hash]

\* the call-data is a transfer(address,uint256) call
IsTransferCall(d) == StartsWith(d, transferSignature) /\ Len(d) >= 138

\* C17: an entry's recipient and amount are the ones decoded from the
\* call-data when it is a transfer call, and the event's `to` and its value in
\* base units when it is not; `from` and `to` are those of the event.
C17_DecodedFieldsFirst ==
    fpc = "resolved" =>
        \A i \in 1..Len(result) :
            /\ result[i].from = SourceOf(result[i]).from
            /\ result[i].to = SourceOf(result[i]).to
            /\ IF IsTransferCall(getTransaction(result[i].hash).input)
               THEN /\ result[i].recipient = Classified[result[i].hash].recipient
                    /\ result[i].amount = Classified[result[i].hash].amount
                    /\ result[i].recipient # Undefined
                    /\ result[i].amount # Undefined
               ELSE /\ result[i].recipient = SourceOf(result[i]).to
                    /\ result[i].amount =
                          DigitChars(NatDigits(SourceOf(result[i]).value)) \o Repeat(48, 6)

C17_Witness ==
    /\ fpc = "resolved"
    /\ \E i \in 1..Len(result) :
          /\ result[i].hash = "h1"
          /\ result[i].to = AddrC
          /\ result[i].recipient = AddrA
          /\ result[i].amount = <<53, 48, 48, 48, 48, 48, 48>>
    /\ \E i \in 1..Len(result) :
          /\ result[i].hash = "h6"
          /\ result[i].recipient = AddrA
          /\ result[i].amount = <<52, 48, 48, 48, 48, 48, 48>>

\* C18: in one call getTransaction is invoked at most `limit` times, and at
\* most once for a transaction hash, however many transfers are returned.
C18_LookupsBounded ==
    /\ Len(lookups) <= limit
    /\ \A i, j \in 1..Len(lookups) : lookups[i] = lookups[j] => i = j

C18_Witness ==
    /\ fpc = "resolved"
    /\ Cardinality(PyusdHashes) > limit
    /\ Len(lookups) = limit

\* C23: the call returns at most 10 entries, and they are the entries of the
\* tagged PYUSD transfers with the greatest timestamps among all the unique
\* transfers the two queries returned, whatever the limit is.
C23_MostRecentReturned ==
    fpc = "resolved" =>
        /\ Len(result) <= 10
        /\ result = OutputOf(Returned, Len(Returned))

----------------------------------------------------------------------------
(* The statistics of the dashboard and the badge: src/src/routes.ts *)

\* the recipient is compared as written
receivedExactCase(txs, addr) ==
    SelectSeq2(txs, { i \in 1..Len(txs) : txs[i].recipient = addr })

\* transactions.filter(tx => tx.recipient.toLowerCase() === address.toLowerCase())
receivedTransactions(txs, addr) ==
    SelectSeq2(txs, { i \in 1..Len(txs) :
                        ToLowerCase(txs[i].recipient) = ToLowerCase(addr) })

\* transactions.filter(tx => tx.from.toLowerCase() === address.toLowerCase())
donatedTransactions(txs, addr) ==
    SelectSeq2(txs, { i \in 1..Len(txs) : ToLowerCase(txs[i].from) = ToLowerCase(addr) })

\* the number a sequence of decimal digits writes
RECURSIVE NatOf(_)
NatOf(ds) == IF ds = <<>> THEN 0 ELSE 10 * NatOf(SubSeq(ds, 1, Len(ds) - 1)) + ds[Len(ds)]

\* parseFloat(tx.amount) / 1000000, for an amount of decimal digits that is a
\* whole number of tokens: the quotient is then exact
amountInTokens(amount) == NatOf(DigitPrefix(amount, 10)) \div 1000000

\* only the first amount is taken
firstAmountOnly(txs) == IF txs = <<>> THEN 0 ELSE amountInTokens(txs[1].amount)

\* txs.reduce((sum, tx) => sum + parseFloat(tx.amount) / 1000000, 0)
RECURSIVE sumOfAmounts(_)
sumOfAmounts(txs) ==
    IF txs = <<>> THEN 0
    ELSE sumOfAmounts(SubSeq(txs, 1, Len(txs) - 1)) + amountInTokens(txs[Len(txs)].amount)

\* const stats = {...}
computeStats(txs, addr) ==
    [totalReceived |-> sumOfAmounts(receivedTransactions(txs, addr)),
     totalDonated |-> sumOfAmounts(donatedTransactions(txs, addr)),
     receivedCount |-> Len(receivedTransactions(txs, addr)),
     donatedCount |-> Len(donatedTransactions(txs, addr))]

----------------------------------------------------------------------------
(* The requests and the upstream of the handlers *)

\* String.prototype.toUpperCase on the hex digits of an address
ToUpperHex(s) ==
    [i \in 1..Len(s) |-> IF i > 2 /\ s[i] >= 97 /\ s[i] <= 102 THEN s[i] - 32 ELSE s[i]]

\* the subject of the requests: AddrA as a client or the resolver writes it
SubjectAddress == ToUpperHex(AddrA)

\* 'a.eth'
SubjectName == <<97, 46, 101, 116, 104>>

AddrD == <<48, 120>> \o Repeat(50, 40)

AddrE == <<48, 120>> \o Repeat(51, 40)

AddrF == <<48, 120>> \o Repeat(52, 40)

Query(handler, ens, addr, style) ==
    [handler |-> handler, ens |-> ens, address |-> addr, style |-> style,
     method |-> "pyusd", verb |-> "GET", addresses |-> <<>>]

\* a request to the serverless dashboard of src/api/dashboard.ts
ApiQuery(verb, ens, addr, style) ==
    [Query("handler", ens, addr, style) EXCEPT !.verb = verb]

\* a request to /donate
DonateQuery(ens, style, method) ==
    [Query("donate", ens, Undefined, style) EXCEPT !.method = method]

\* the requests to /dashboard, /address-badge and /ens-stats, and the calls
\* of resolveAddressesToENS
Requests ==
    { Query("gitPayDashboard", SubjectName, Undefined, "light"),
      Query("gitPayDashboard", Undefined, SubjectAddress, "dark"),
      Query("gitPayDashboard", Undefined, AddrA, "light"),
      Query("gitPayDashboard", Undefined, Undefined, "light"),
      Query("gitPayDashboard", SubjectName, Undefined, "pink"),
      Query("gitPayAddressBadge", Undefined, SubjectAddress, "light"),
      Query("gitPayAddressBadge", Undefined, Undefined, "light"),
      Query("ensStats", SubjectName, Undefined, "neon"),
      Query("ensStats", AddrA, Undefined, "light"),
      Query("ensStats", Undefined, Undefined, "light"),
      Query("ensStats", SubjectName, Undefined, "pink"),
      DonateQuery(SubjectName, "light", "pyusd"),
      DonateQuery(SubjectName, "dark", "eth"),
      DonateQuery(AddrA, "neon", "pyusd"),
      DonateQuery(AddrA, "light", "eth"),
      DonateQuery(SubjectName, "pink", "pyusd"),
      DonateQuery(Undefined, "light", "pyusd"),
      Query("gitPayDashboard", NotAString, Undefined, "light"),
      Query("gitPayDashboard", NotAString, AddrA, "neon"),
      ApiQuery("GET", SubjectName, Undefined, "light"),
      ApiQuery("GET", Undefined, AddrA, "dark"),
      ApiQuery("GET", Undefined, Undefined, "light"),
      ApiQuery("GET", SubjectName, Undefined, "pink"),
      ApiQuery("OPTIONS", SubjectName, Undefined, "light"),
      ApiQuery("POST", SubjectName, Undefined, "light") }
    \cup { [handler |-> "resolveAddressesToENS", ens |-> Undefined, address |-> Undefined,
            style |-> "light", method |-> "pyusd", verb |-> "GET", addresses |-> l] :
             l \in { <<>>, <<AddrA>>, <<AddrC, SubjectAddress, AddrA>>,
                     <<AddrA, AddrB, AddrC, AddrD, AddrE, AddrF>> } }

\* ['light', 'dark', 'neon'].includes(style)
validStyle(style) == style \in {"light", "dark", "neon"}

\* what fetchTransactionsForAddress(resolvedAddress, 50) can resolve with
TransactionLists ==
    { OutputOf(all, 50) :
        all \in SeqsUpTo(TransferPool, MaxTransfers) \cup {ManyReceived, ManyDonated} }

\* the entries of all the tagged transfers, newest first
TransactionListsUntruncated ==
    { sortNewestFirst(EntriesFor(Slice(pyusdOnly(uniqueTransfers(all)), 0, 50))) :
        all \in SeqsUpTo(TransferPool, MaxTransfers) \cup {ManyReceived, ManyDonated} }

\* a response: status, body and the headers set
Json(status, message) ==
    [status |-> status, body |-> message, contentType |-> "application/json",
     cacheControl |-> "none"]

Svg(maxAge) ==
    [status |-> 200, body |-> "svg", contentType |-> "image/svg+xml",
     cacheControl |-> maxAge]

----------------------------------------------------------------------------
(* gitPayDashboard, gitPayAddressBadge and ensStats as state machines *)

HandlerInit ==
    /\ request \in Requests
    /\ hpc = (IF request.handler = "resolveAddressesToENS" THEN "ensLoop" ELSE "start")
    /\ resolvedAddress = Undefined
    /\ ensName = Null
    /\ calls = <<>>
    /\ transactions = <<>>
    /\ stats = NoStats
    /\ responses = <<>>
    /\ ensI = 0
    /\ ensPending = {}
    /\ ensResults = <<>>
    /\ ensMap = {}
    /\ PageNotLoaded
    /\ cpc = "off"
    /\ args = NoArgs
    /\ data = <<>>
    /\ parsed = Undefined
    /\ fpc = "off"
    /\ limit = 0
    /\ toResponse = NotIssued
    /\ fromResponse = NotIssued
    /\ pyusdTransfers = <<>>
    /\ idx = 0
    /\ gitPayTransactions = <<>>
    /\ lookups = <<>>
    /\ error = "none"
    /\ result = Undefined

\* res.status(...).json(...) or res.send(svg): the handler is done
Respond(r) ==
    /\ responses' = Append(responses, r)
    /\ hpc' = "done"

\* the request is for the dashboard: the Express route or the serverless one
IsDashboard == request.handler \in {"gitPayDashboard", "handler"}

\* the dashboard from its parameters up to its first await
DashboardStart ==
    IF request.ens = Undefined /\ request.address = Undefined
    THEN /\ Respond(Json(400, "Either ENS name or address is required"))
         /\ UNCHANGED <<resolvedAddress, calls>>
    ELSE IF ~validStyle(request.style)
    THEN /\ Respond(Json(400, "Invalid style. Must be one of: light, dark, neon"))
         /\ UNCHANGED <<resolvedAddress, calls>>
    ELSE IF request.ens \notin {Undefined, NotAString}
    THEN /\ calls' = Append(calls, "getEnsAddress")
         /\ hpc' = "awaitEnsAddress"
         /\ UNCHANGED <<resolvedAddress, responses>>
    ELSE IF request.address \notin {Undefined, NotAString}
    THEN /\ resolvedAddress' = request.address
         /\ calls' = Append(calls, "getEnsName")
         /\ hpc' = "awaitEnsName"
         /\ UNCHANGED responses
    ELSE /\ Respond(Json(400, "Invalid ENS name or address format"))
         /\ UNCHANGED <<resolvedAddress, calls>>

\* gitPayDashboard up to its first await
DashboardReceive ==
    /\ hpc = "start"
    /\ request.handler = "gitPayDashboard"
    /\ DashboardStart
    /\ UNCHANGED <<request, ensName, transactions, stats, ensI, ensPending, ensResults,
                   ensMap>>
    /\ UNCHANGED <<cvars, fvars, dvars>>

\* res.status(200).end() of the serverless handler
Ended == [status |-> 200, body |-> "", contentType |-> "none", cacheControl |-> "none"]

\* the handler of src/api/dashboard.ts up to its first await
ApiDashboardReceive ==
    /\ hpc = "start"
    /\ request.handler = "handler"
    /\ IF request.verb = "OPTIONS"
       THEN /\ Respond(Ended)
            /\ UNCHANGED <<resolvedAddress, calls>>
       ELSE IF request.verb # "GET"
       THEN /\ Respond(Json(405, "Method not allowed"))
            /\ UNCHANGED <<resolvedAddress, calls>>
       ELSE DashboardStart
    /\ UNCHANGED <<request, ensName, transactions, stats, ensI, ensPending, ensResults,
                   ensMap>>
    /\ UNCHANGED <<cvars, fvars, dvars>>

\* gitPayAddressBadge up to its first await
BadgeReceive ==
    /\ hpc = "start"
    /\ request.handler = "gitPayAddressBadge"
    /\ IF request.address = Undefined
       THEN /\ Respond(Json(400, "Address parameter is required"))
            /\ UNCHANGED <<resolvedAddress, calls>>
       ELSE /\ resolvedAddress' = request.address
            /\ calls' = Append(calls, "getEnsName")
            /\ hpc' = "awaitEnsName"
            /\ UNCHANGED responses
    /\ UNCHANGED <<request, ensName, transactions, stats, ensI, ensPending, ensResults,
                   ensMap>>
    /\ UNCHANGED <<cvars, fvars, dvars>>

\* ensStats up to its first await
EnsStatsReceive ==
    /\ hpc = "start"
    /\ request.handler = "ensStats"
    /\ IF request.ens = Undefined
       THEN /\ Respond(Json(400, "ENS name is required"))
            /\ UNCHANGED <<resolvedAddress, calls>>
       ELSE IF ~validStyle(request.style)
       THEN /\ Respond(Json(400, "Invalid style. Must be one of: light, dark, neon"))
            /\ UNCHANGED <<resolvedAddress, calls>>
       ELSE IF StartsWith(request.ens, <<48, 120>>) /\ Len(request.ens) = 42
       THEN /\ resolvedAddress' = request.ens
            /\ calls' = Append(calls, "getPYUSDBalance")
            /\ hpc' = "awaitBalance"
            /\ UNCHANGED responses
       ELSE /\ calls' = Append(calls, "getEnsAddress")
            /\ hpc' = "awaitEnsAddress"
            /\ UNCHANGED <<resolvedAddress, responses>>
    /\ UNCHANGED <<request, ensName, transactions, stats, ensI, ensPending, ensResults,
                   ensMap>>
    /\ UNCHANGED <<cvars, fvars, dvars>>

\* donate from its method check on: generateDonateSVG and the headers, or 400
DonateRespond ==
    IF request.method = "pyusd"
    THEN Respond(Svg("public, max-age=300"))
    ELSE Respond(Json(400, "Invalid method. Use \"pyusd\""))

\* donate up to its first await, or to its response when ens is an address
DonateReceive ==
    /\ hpc = "start"
    /\ request.handler = "donate"
    /\ IF request.ens = Undefined
       THEN /\ Respond(Json(400, "ENS name is required"))
            /\ UNCHANGED <<resolvedAddress, calls>>
       ELSE IF ~validStyle(request.style)
       THEN /\ Respond(Json(400, "Invalid style. Must be one of: light, dark, neon"))
            /\ UNCHANGED <<resolvedAddress, calls>>
       ELSE IF StartsWith(request.ens, <<48, 120>>) /\ Len(request.ens) = 42
       THEN /\ resolvedAddress' = request.ens
            /\ DonateRespond
            /\ UNCHANGED calls
       ELSE /\ calls' = Append(calls, "getEnsAddress")
            /\ hpc' = "awaitEnsAddress"
            /\ UNCHANGED <<resolvedAddress, responses>>
    /\ UNCHANGED <<request, ensName, transactions, stats, ensI, ensPending, ensResults,
                   ensMap>>
    /\ UNCHANGED <<cvars, fvars, dvars>>

\* the null is not looked at and the handler goes on to the transfers
EnsAddressNullIgnored ==
    /\ hpc = "awaitEnsAddress"
    /\ resolvedAddress' = Null
    /\ calls' = Append(calls, "fetchTransactionsForAddress")
    /\ hpc' = "awaitFetch"
    /\ UNCHANGED <<request, ensName, transactions, stats, responses, ensI, ensPending,
                   ensResults, ensMap>>
    /\ UNCHANGED <<cvars, fvars, dvars>>

\* client.getEnsAddress returns null: 404, nothing else is called
EnsAddressNotFound ==
    /\ hpc = "awaitEnsAddress"
    /\ resolvedAddress' = Null
    /\ Respond(Json(404, "ENS name not found"))
    /\ UNCHANGED <<request, ensName, calls, transactions, stats, ensI, ensPending,
                   ensResults, ensMap>>
    /\ UNCHANGED <<cvars, fvars, dvars>>

\* client.getEnsAddress returns an address: the dashboard goes on to the
\* transfers, ensStats to the balance, donate to its response
EnsAddressReturns ==
    /\ hpc = "awaitEnsAddress"
    /\ resolvedAddress' = SubjectAddress
    /\ IF IsDashboard
       THEN /\ ensName' = request.ens
            /\ calls' = Append(calls, "fetchTransactionsForAddress")
            /\ hpc' = "awaitFetch"
            /\ UNCHANGED responses
       ELSE IF request.handler = "donate"
       THEN /\ DonateRespond
            /\ UNCHANGED <<ensName, calls>>
       ELSE /\ calls' = Append(calls, "getPYUSDBalance")
            /\ hpc' = "awaitBalance"
            /\ UNCHANGED <<ensName, responses>>
    /\ UNCHANGED <<request, transactions, stats, ensI, ensPending, ensResults,
                   ensMap>>
    /\ UNCHANGED <<cvars, fvars, dvars>>

\* the 500 of the catch block sent with the headers of the SVG
HandlerCatchesCached ==
    /\ hpc \in {"awaitEnsAddress", "awaitFetch", "awaitBalance"}
    /\ Respond([Json(500, "Internal server error") EXCEPT
                    !.cacheControl = "public, max-age=300"])
    /\ UNCHANGED <<request, resolvedAddress, ensName, calls, transactions, stats, ensI,
                   ensPending, ensResults, ensMap>>
    /\ UNCHANGED <<cvars, fvars, dvars>>

\* an awaited call of the handler throws outside an inner try: 500
HandlerCatches ==
    /\ hpc \in {"awaitEnsAddress", "awaitFetch", "awaitBalance"}
    /\ Respond(Json(500, "Internal server error"))
    /\ UNCHANGED <<request, resolvedAddress, ensName, calls, transactions, stats, ensI,
                   ensPending, ensResults, ensMap>>
    /\ UNCHANGED <<cvars, fvars, dvars>>

\* the failure of client.getEnsName fails the request
EnsNameThrowsFatal ==
    /\ hpc = "awaitEnsName"
    /\ Respond(Json(500, "Internal server error"))
    /\ UNCHANGED <<request, resolvedAddress, ensName, calls, transactions, stats, ensI,
                   ensPending, ensResults, ensMap>>
    /\ UNCHANGED <<cvars, fvars, dvars>>

\* client.getEnsName throws: caught, the handler goes on without a name
EnsNameThrows ==
    /\ hpc = "awaitEnsName"
    /\ calls' = Append(calls, "fetchTransactionsForAddress")
    /\ hpc' = "awaitFetch"
    /\ UNCHANGED <<request, resolvedAddress, ensName, transactions, stats, responses,
                   ensI, ensPending, ensResults, ensMap>>
    /\ UNCHANGED <<cvars, fvars, dvars>>

\* client.getEnsName returns a name or null
EnsNameReturns ==
    /\ hpc = "awaitEnsName"
    /\ \E name \in {SubjectName, Null} : ensName' = name
    /\ calls' = Append(calls, "fetchTransactionsForAddress")
    /\ hpc' = "awaitFetch"
    /\ UNCHANGED <<request, resolvedAddress, transactions, stats, responses, ensI,
                   ensPending, ensResults, ensMap>>
    /\ UNCHANGED <<cvars, fvars, dvars>>

\* the statistics are computed from the entries of all the tagged transfers
FetchResolvesUntruncated ==
    /\ hpc = "awaitFetch"
    /\ hpc' = "awaitSvg"
    /\ \E txs \in TransactionListsUntruncated :
          /\ transactions' = txs
          /\ stats' = computeStats(txs, resolvedAddress)
    /\ UNCHANGED <<request, resolvedAddress, ensName, calls, responses, ensI, ensPending,
                   ensResults, ensMap>>
    /\ UNCHANGED <<cvars, fvars, dvars>>

\* fetchTransactionsForAddress(resolvedAddress, 50) resolves: the statistics
\* are computed and the SVG is generated
FetchResolves ==
    /\ hpc = "awaitFetch"
    /\ hpc' = "awaitSvg"
    /\ \E txs \in TransactionLists :
          /\ transactions' = txs
          /\ stats' = computeStats(txs, resolvedAddress)
    /\ UNCHANGED <<request, resolvedAddress, ensName, calls, responses, ensI, ensPending,
                   ensResults, ensMap>>
    /\ UNCHANGED <<cvars, fvars, dvars>>

\* the SVG is sent, and a second response after it
SendSvgTwice ==
    /\ hpc = "awaitSvg"
    /\ responses' = responses \o <<Svg("public, max-age=60"), Svg("public, max-age=60")>>
    /\ hpc' = "done"
    /\ UNCHANGED <<request, resolvedAddress, ensName, calls, transactions, stats, ensI,
                   ensPending, ensResults, ensMap>>
    /\ UNCHANGED <<cvars, fvars, dvars>>

\* the SVG is sent with its headers
SendSvg ==
    /\ hpc = "awaitSvg"
    /\ Respond(Svg("public, max-age=60"))
    /\ UNCHANGED <<request, resolvedAddress, ensName, calls, transactions, stats, ensI,
                   ensPending, ensResults, ensMap>>
    /\ UNCHANGED <<cvars, fvars, dvars>>

\* getPYUSDBalance resolves: ensStats sends its SVG
BalanceReturns ==
    /\ hpc = "awaitBalance"
    /\ Respond(Svg("public, max-age=300"))
    /\ UNCHANGED <<request, resolvedAddress, ensName, calls, transactions, stats, ensI,
                   ensPending, ensResults, ensMap>>
    /\ UNCHANGED <<cvars, fvars, dvars>>

----------------------------------------------------------------------------
(* resolveAddressesToENS(addresses) of src/src/utils.ts as a state machine *)

batchSize == 5

\* what client.getEnsName({address}) gives for the addresses of the calls: a
\* name, null, or it throws
getEnsName(addr) ==
    CASE ToLowerCase(addr) = AddrA -> [ok |-> TRUE, ensName |-> SubjectName]
      [] ToLowerCase(addr) = AddrB -> [ok |-> TRUE, ensName |-> Null]
      [] ToLowerCase(addr) = AddrC -> [ok |-> FALSE, ensName |-> Null]
      [] ToLowerCase(addr) = AddrD -> [ok |-> TRUE, ensName |-> <<100, 46, 101, 116, 104>>]
      [] ToLowerCase(addr) = AddrE -> [ok |-> FALSE, ensName |-> Null]
      [] ToLowerCase(addr) = AddrF -> [ok |-> TRUE, ensName |-> Null]

\* addresses.slice(i, i + batchSize)
batchOf(addresses, i) == Slice(addresses, i, i + batchSize)

\* results.forEach(({address, ensName}) => ensMap.set(address.toLowerCase(), ensName))
RECURSIVE setAll(_, _)
setAll(map, results) ==
    IF results = <<>> THEN map
    ELSE setAll({ e \in map : e[1] # ToLowerCase(results[1].address) }
                \cup { <<ToLowerCase(results[1].address), results[1].ensName>> },
                Tail(results))

\* the lookups of all the remaining addresses are started at once
EnsStartAll ==
    /\ hpc = "ensLoop"
    /\ ensI < Len(request.addresses)
    /\ hpc' = "ensAwait"
    /\ calls' = calls \o [k \in 1..(Len(request.addresses) - ensI) |-> "getEnsName"]
    /\ ensPending' = 1..(Len(request.addresses) - ensI)
    /\ ensResults' = [k \in 1..(Len(request.addresses) - ensI) |-> NotSettled]
    /\ UNCHANGED <<request, resolvedAddress, ensName, transactions, stats, responses,
                   ensI, ensMap>>
    /\ UNCHANGED <<cvars, fvars, dvars>>

\* the lookups of the next batch are all started, then awaited together
EnsBatchStart ==
    /\ hpc = "ensLoop"
    /\ ensI < Len(request.addresses)
    /\ hpc' = "ensAwait"
    /\ calls' = calls \o [k \in 1..Len(batchOf(request.addresses, ensI)) |-> "getEnsName"]
    /\ ensPending' = 1..Len(batchOf(request.addresses, ensI))
    /\ ensResults' = [k \in 1..Len(batchOf(request.addresses, ensI)) |-> NotSettled]
    /\ UNCHANGED <<request, resolvedAddress, ensName, transactions, stats, responses,
                   ensI, ensMap>>
    /\ UNCHANGED <<cvars, fvars, dvars>>

\* a lookup of the batch returns a name or null
EnsLookupReturns ==
    /\ hpc = "ensAwait"
    /\ \E k \in ensPending :
          /\ getEnsName(batchOf(request.addresses, ensI)[k]).ok
          /\ ensPending' = ensPending \ {k}
          /\ ensResults' =
                [ensResults EXCEPT ![k] =
                    [address |-> batchOf(request.addresses, ensI)[k],
                     ensName |-> getEnsName(batchOf(request.addresses, ensI)[k]).ensName]]
    /\ UNCHANGED <<hpc, request, resolvedAddress, ensName, calls, transactions, stats,
                   responses, ensI, ensMap>>
    /\ UNCHANGED <<cvars, fvars, dvars>>

\* a lookup of the batch throws: caught, its result is {address, ensName: null}
EnsLookupThrows ==
    /\ hpc = "ensAwait"
    /\ \E k \in ensPending :
          /\ ~getEnsName(batchOf(request.addresses, ensI)[k]).ok
          /\ ensPending' = ensPending \ {k}
          /\ ensResults' =
                [ensResults EXCEPT ![k] =
                    [address |-> batchOf(request.addresses, ensI)[k], ensName |-> Null]]
    /\ UNCHANGED <<hpc, request, resolvedAddress, ensName, calls, transactions, stats,
                   responses, ensI, ensMap>>
    /\ UNCHANGED <<cvars, fvars, dvars>>

\* all lookups of the batch have settled: the map is filled, next batch
EnsBatchDone ==
    /\ hpc = "ensAwait"
    /\ ensPending = {}
    /\ ensMap' = setAll(ensMap, ensResults)
    /\ ensI' = ensI + batchSize
    /\ hpc' = "ensLoop"
    /\ UNCHANGED <<request, resolvedAddress, ensName, calls, transactions, stats,
                   responses, ensPending, ensResults>>
    /\ UNCHANGED <<cvars, fvars, dvars>>

\* return ensMap
EnsReturn ==
    /\ hpc = "ensLoop"
    /\ ensI >= Len(request.addresses)
    /\ hpc' = "ensDone"
    /\ UNCHANGED <<request, resolvedAddress, ensName, calls, transactions, stats,
                   responses, ensI, ensPending, ensResults, ensMap>>
    /\ UNCHANGED <<cvars, fvars, dvars>>

HandlerNext ==
    \/ DashboardReceive
    \/ ApiDashboardReceive
    \/ BadgeReceive
    \/ EnsStatsReceive
    \/ DonateReceive
    \/ EnsAddressNotFound
    \/ EnsAddressReturns
    \/ HandlerCatches
    \/ EnsNameThrows
    \/ EnsNameReturns
    \/ FetchResolves
    \/ SendSvg
    \/ BalanceReturns
    \/ EnsBatchStart
    \/ EnsLookupReturns
    \/ EnsLookupThrows
    \/ EnsBatchDone
    \/ EnsReturn

SpecHandlers == HandlerInit /\ [][HandlerNext]_vars

\* every upstream call of a handler returns or fails in the end
SpecHandlersFair == SpecHandlers /\ WF_<<hpc, ensPending>>(HandlerNext)

----------------------------------------------------------------------------
(* Properties of the handlers *)

SameAddress(a, b) == ToLowerCase(a) = ToLowerCase(b)

\* the handler has computed the statistics of its request
StatsComputed ==
    \/ hpc = "awaitSvg"
    \/ /\ hpc = "done"
       /\ request.handler \in {"gitPayDashboard", "handler", "gitPayAddressBadge"}
       /\ responses[Len(responses)].contentType = "image/svg+xml"

\* positions of the entries received by, and donated by, the subject
ReceivedIdx ==
    { i \in 1..Len(transactions) : SameAddress(transactions[i].recipient, resolvedAddress) }

DonatedIdx ==
    { i \in 1..Len(transactions) : SameAddress(transactions[i].from, resolvedAddress) }

\* entries that touch the subject and whose recipient is not their sender
OneSidedIdx ==
    { i \in ReceivedIdx \cup DonatedIdx :
        ~SameAddress(transactions[i].recipient, transactions[i].from) }

\* entries sent by the subject to itself
SelfIdx == ReceivedIdx \cap DonatedIdx

TokensMoved(entry) ==
    CASE entry.hash = "h1" -> 5
      [] entry.hash = "h2" -> 1
      [] entry.hash = "h6" -> 4
      [] entry.hash \in Range(ReceivedHashes) -> 5
      [] entry.hash \in Range(DonatedHashes) -> 1

RECURSIVE TokensOver(_)
TokensOver(S) ==
    IF S = {} THEN 0
    ELSE TokensMoved(transactions[CHOOSE i \in S : TRUE])
         + TokensOver(S \ {CHOOSE i \in S : TRUE})

\* C15: totalReceived is the sum of the amounts, in tokens, of exactly the
\* entries whose recipient is the subject, totalDonated that of exactly the
\* entries whose sender is the subject; the empty list gives zero counts and
\* totals, and an entry the subject sent to itself is in both totals.
C15_TotalsAreSums ==
    StatsComputed =>
        /\ stats.totalReceived = TokensOver(ReceivedIdx)
        /\ stats.totalDonated = TokensOver(DonatedIdx)
        /\ transactions = <<>> =>
              stats = [totalReceived |-> 0, totalDonated |-> 0,
                       receivedCount |-> 0, donatedCount |-> 0]
        /\ \A i \in SelfIdx :
              /\ stats.totalReceived >= TokensMoved(transactions[i])
              /\ stats.totalDonated >= TokensMoved(transactions[i])

C15_Witness ==
    /\ StatsComputed
    /\ SelfIdx # {}
    /\ Len(transactions) = 3
    /\ stats.totalReceived = 9
    /\ stats.totalDonated = 6

\* C19: when the name resolves to no address the handler answers 404 "ENS name
\* not found" and is done: the name is not resolved again and no balance read,
\* event query or transaction lookup is made.
C19_NotFoundStops ==
    resolvedAddress = Null =>
        /\ hpc = "done"
        /\ responses = <<Json(404, "ENS name not found")>>
        /\ calls = <<"getEnsAddress">>

C19_Witness ==
    /\ resolvedAddress = Null
    /\ request.handler = "gitPayDashboard"
    /\ hpc = "done"
    /\ Len(responses) = 1
    /\ responses[1].status = 404

\* the map resolveAddressesToENS is to return for its addresses
ExpectedEnsMap ==
    { <<ToLowerCase(request.addresses[i]),
        IF getEnsName(request.addresses[i]).ok
        THEN getEnsName(request.addresses[i]).ensName ELSE Null>> :
        i \in 1..Len(request.addresses) }

\* C20: the dashboard and the badge go on from the reverse lookup to the
\* transfers whatever the lookup did, with no response sent and with the name
\* it returned or none; resolveAddressesToENS returns a map with an entry for
\* every address, null for those whose lookup failed.
C20_ReverseLookupNeverFatal ==
    /\ (/\ request.handler \in {"gitPayDashboard", "gitPayAddressBadge"}
        /\ calls # <<>>
        /\ calls[1] = "getEnsName"
        /\ hpc # "awaitEnsName")
          => /\ Len(calls) >= 2
             /\ calls[2] = "fetchTransactionsForAddress"
             /\ ensName \in {Null, SubjectName}
    /\ hpc = "ensDone" => ensMap = ExpectedEnsMap

C20_Witness ==
    /\ hpc = "ensDone"
    /\ Len(request.addresses) = 6
    /\ <<AddrC, Null>> \in ensMap
    /\ <<AddrE, Null>> \in ensMap
    /\ <<AddrA, SubjectName>> \in ensMap
    /\ <<AddrF, Null>> \in ensMap

----------------------------------------------------------------------------
(* The script of the donation page: donatePYUSD and waitForTransaction of   *)
(* src/src/utils.ts.  One task of the event loop is one action; the         *)
(* continuation of an await runs in the task that settles the promise.  A   *)
(* call of waitForTransaction has its own promise and timers, so what is    *)
(* left of an earlier call cannot touch a later one and is dropped when the *)
(* next call starts.                                                        *)

MaxClicks == 2

intervalMs == 2000

timeoutMs == 120000

wvars == <<settled, checkInterval, elapsed, inFlight, timeoutFired, seen>>

DonateInit ==
    /\ dpc = "idle"
    /\ hasWallet \in BOOLEAN
    /\ PageFresh
    /\ cpc = "off"
    /\ args = NoArgs
    /\ data = <<>>
    /\ parsed = Undefined
    /\ fpc = "off"
    /\ limit = 0
    /\ toResponse = NotIssued
    /\ fromResponse = NotIssued
    /\ pyusdTransfers = <<>>
    /\ idx = 0
    /\ gitPayTransactions = <<>>
    /\ lookups = <<>>
    /\ error = "none"
    /\ result = Undefined
    /\ hpc = "off"
    /\ request = Undefined
    /\ resolvedAddress = Undefined
    /\ ensName = Null
    /\ calls = <<>>
    /\ transactions = <<>>
    /\ stats = NoStats
    /\ responses = <<>>
    /\ ensI = 0
    /\ ensPending = {}
    /\ ensResults = <<>>
    /\ ensMap = {}

\* the catch block of donatePYUSD
DonateFails ==
    /\ shown' = "error"
    /\ btnDisabled' = FALSE
    /\ dpc' = "idle"
    /\ inProgress' = inProgress - 1

\* donatePYUSD after await waitForTransaction(transferTx)
DonateSucceeds ==
    /\ shown' = "donated"
    /\ dpc' = "idle"
    /\ inProgress' = inProgress - 1
    /\ UNCHANGED btnDisabled

\* the click goes on without disabling the button
ClickLeavesEnabled ==
    /\ dpc # "off"
    /\ ~btnDisabled
    /\ attempt < MaxClicks
    /\ attempt' = attempt + 1
    /\ IF ~hasWallet
       THEN /\ shown' = "installMetaMask"
            /\ UNCHANGED <<btnDisabled, dpc, inProgress>>
       ELSE /\ shown' = "connecting"
            /\ dpc' = "awaitChainId"
            /\ inProgress' = inProgress + 1
            /\ UNCHANGED btnDisabled
    /\ UNCHANGED <<hasWallet, sends, wvars>>
    /\ UNCHANGED <<cvars, fvars, hvars>>

\* a click on the enabled button: donatePYUSD up to its first await
Click ==
    /\ dpc # "off"
    /\ ~btnDisabled
    /\ attempt < MaxClicks
    /\ attempt' = attempt + 1
    /\ IF ~hasWallet
       THEN /\ shown' = "installMetaMask"
            /\ btnDisabled' = FALSE
            /\ UNCHANGED <<dpc, inProgress>>
       ELSE /\ btnDisabled' = TRUE
            /\ shown' = "connecting"
            /\ dpc' = "awaitChainId"
            /\ inProgress' = inProgress + 1
    /\ UNCHANGED <<hasWallet, sends, wvars>>
    /\ UNCHANGED <<cvars, fvars, hvars>>

\* eth_chainId is answered: Sepolia or another chain
ChainIdReturns ==
    /\ dpc = "awaitChainId"
    /\ \E sepolia \in BOOLEAN :
          IF sepolia
          THEN dpc' = "awaitAccounts" /\ UNCHANGED shown
          ELSE dpc' = "awaitSwitch" /\ shown' = "switching"
    /\ UNCHANGED <<hasWallet, btnDisabled, attempt, inProgress, sends, wvars>>
    /\ UNCHANGED <<cvars, fvars, hvars>>

\* wallet_switchEthereumChain throws with code 4902: the chain is added
SwitchUnknownChain ==
    /\ dpc = "awaitSwitch"
    /\ dpc' = "awaitAdd"
    /\ UNCHANGED <<hasWallet, btnDisabled, shown, attempt, inProgress, sends, wvars>>
    /\ UNCHANGED <<cvars, fvars, hvars>>

\* wallet_switchEthereumChain or wallet_addEthereumChain is answered
SwitchReturns ==
    /\ dpc \in {"awaitSwitch", "awaitAdd"}
    /\ dpc' = "awaitAccounts"
    /\ UNCHANGED <<hasWallet, btnDisabled, shown, attempt, inProgress, sends, wvars>>
    /\ UNCHANGED <<cvars, fvars, hvars>>

\* a request of donatePYUSD throws (a switch error with another code, a
\* rejection by the user): the catch block
RequestThrows ==
    /\ dpc \in {"awaitChainId", "awaitSwitch", "awaitAdd", "awaitAccounts", "awaitSend"}
    /\ DonateFails
    /\ UNCHANGED <<hasWallet, attempt, sends, wvars>>
    /\ UNCHANGED <<cvars, fvars, hvars>>

\* eth_requestAccounts is answered: with an account eth_sendTransaction is
\* issued, with none userAddress.slice throws
AccountsReturn ==
    /\ dpc = "awaitAccounts"
    /\ \E some \in BOOLEAN :
          IF some
          THEN /\ shown' = "sending"
               /\ sends' = Append(sends, attempt)
               /\ dpc' = "awaitSend"
               /\ UNCHANGED <<btnDisabled, inProgress>>
          ELSE /\ DonateFails
               /\ UNCHANGED sends
    /\ UNCHANGED <<hasWallet, attempt, wvars>>
    /\ UNCHANGED <<cvars, fvars, hvars>>

\* eth_sendTransaction is answered with the hash: waitForTransaction sets its
\* interval and its timeout
SendReturns ==
    /\ dpc = "awaitSend"
    /\ shown' = "sent"
    /\ dpc' = "awaitReceipt"
    /\ settled' = "pending"
    /\ checkInterval' = TRUE
    /\ elapsed' = 0
    /\ inFlight' = 0
    /\ timeoutFired' = FALSE
    /\ seen' = {}
    /\ UNCHANGED <<hasWallet, btnDisabled, attempt, inProgress, sends>>
    /\ UNCHANGED <<cvars, fvars, hvars>>

\* resolve or reject of the promise; only the first one counts, and donatePYUSD
\* goes on from its await with it
Settle(outcome) ==
    IF settled = "pending"
    THEN /\ settled' = outcome
         /\ IF outcome = "resolved" THEN DonateSucceeds ELSE DonateFails
    ELSE UNCHANGED <<settled, shown, btnDisabled, dpc, inProgress>>

\* 2000 ms pass: the interval callback, when the interval is set, requests
\* the receipt
Tick ==
    /\ settled # "none"
    /\ ~timeoutFired
    /\ (elapsed + 1) * intervalMs <= timeoutMs
    /\ elapsed' = elapsed + 1
    /\ inFlight' = IF checkInterval THEN inFlight + 1 ELSE inFlight
    /\ UNCHANGED <<settled, checkInterval, timeoutFired, seen>>
    /\ UNCHANGED <<dpc, hasWallet, btnDisabled, shown, attempt, inProgress, sends>>
    /\ UNCHANGED <<cvars, fvars, hvars>>

\* eth_getTransactionReceipt is answered: null, or a receipt with its status
PollReturns ==
    /\ inFlight > 0
    /\ inFlight' = inFlight - 1
    /\ \E receipt \in {"null", "0x1", "0x0"} :
          IF receipt = "null"
          THEN UNCHANGED <<settled, checkInterval, seen, shown, btnDisabled, dpc,
                           inProgress>>
          ELSE /\ seen' = seen \cup {receipt}
               /\ checkInterval' = FALSE
               /\ Settle(IF receipt = "0x1" THEN "resolved" ELSE "failed")
    /\ UNCHANGED <<elapsed, timeoutFired, hasWallet, attempt, sends>>
    /\ UNCHANGED <<cvars, fvars, hvars>>

\* eth_getTransactionReceipt throws
PollThrows ==
    /\ inFlight > 0
    /\ inFlight' = inFlight - 1
    /\ seen' = seen \cup {"error"}
    /\ checkInterval' = FALSE
    /\ Settle("error")
    /\ UNCHANGED <<elapsed, timeoutFired, hasWallet, attempt, sends>>
    /\ UNCHANGED <<cvars, fvars, hvars>>

\* the timeout callback runs and rejects nothing
TimeoutIgnored ==
    /\ settled # "none"
    /\ ~timeoutFired
    /\ (elapsed + 1) * intervalMs >= timeoutMs
    /\ timeoutFired' = TRUE
    /\ UNCHANGED <<settled, checkInterval, elapsed, inFlight, seen>>
    /\ UNCHANGED <<dpc, hasWallet, btnDisabled, shown, attempt, inProgress, sends>>
    /\ UNCHANGED <<cvars, fvars, hvars>>

\* 120000 ms have passed: the timeout callback
Timeout ==
    /\ settled # "none"
    /\ ~timeoutFired
    /\ (elapsed + 1) * intervalMs >= timeoutMs
    /\ timeoutFired' = TRUE
    /\ checkInterval' = FALSE
    /\ Settle("timeout")
    /\ UNCHANGED <<elapsed, inFlight, seen, hasWallet, attempt, sends>>
    /\ UNCHANGED <<cvars, fvars, hvars>>

DonateNext ==
    \/ Click
    \/ ChainIdReturns
    \/ SwitchUnknownChain
    \/ SwitchReturns
    \/ RequestThrows
    \/ AccountsReturn
    \/ SendReturns
    \/ Tick
    \/ PollReturns
    \/ PollThrows
    \/ Timeout

SpecDonate == DonateInit /\ [][DonateNext]_vars

\* the timers of the page fire
SpecDonateFair == SpecDonate /\ WF_vars(Tick) /\ WF_vars(Timeout)

----------------------------------------------------------------------------
(* The donation page's call-data under the classifier *)

\* C21: whatever recipient and amount the builder is given, the call-data it
\* returns is classified isGitPay = true.
C21_BuiltDataIsGitPay ==
    (cpc = "parsed" /\ args # NoArgs) =>
        /\ HasTag(data)
        /\ parsed.isGitPay = TRUE

C21_Witness ==
    /\ cpc = "parsed"
    /\ args # NoArgs
    /\ args.amountInWei = <<78, 97, 78>>
    /\ Slice(data, 135, 138) = <<78, 97, 78>>
    /\ parsed.isGitPay = TRUE

----------------------------------------------------------------------------
(* Responses of /api/ens-stats and /api/donate *)

\* the handler has an address for the ens parameter: the parameter itself or
\* what client.getEnsAddress returned
Resolved == resolvedAddress # Undefined /\ resolvedAddress # Null

Answered22 ==
    /\ hpc = "done"
    /\ request.handler \in {"ensStats", "donate"}
    /\ Len(responses) = 1

\* C22 as stated: a request to /api/ens-stats or /api/donate whose name
\* resolves, with no failure of the balance read, is answered 200 with
\* Content-Type image/svg+xml, and no other response has a Cache-Control header.
C22_ResolvedNameGivesSvg ==
    /\ (Answered22 /\ Resolved /\ responses[1].status # 500) =>
          (responses[1].status = 200 /\ responses[1].contentType = "image/svg+xml")
    /\ \A i \in 1..Len(responses) :
          responses[i].cacheControl # "none" => responses[i].status = 200

\* C22 as amended: the same when moreover the method of a /api/donate request
\* is 'pyusd'; with another method the answer is 400 after the name has been
\* resolved, and with a style other than light, dark and neon it is 400 before
\* any upstream call. The 200 carries Cache-Control public, max-age=300 and no
\* other response has a Cache-Control header.
C22_ResolvedNameAndMethodGiveSvg ==
    /\ (Answered22 /\ Resolved /\ responses[1].status # 500) =>
          IF request.handler = "donate" /\ request.method # "pyusd"
          THEN responses[1] = Json(400, "Invalid method. Use \"pyusd\"")
          ELSE responses[1] = Svg("public, max-age=300")
    /\ (Answered22 /\ request.ens # Undefined /\ ~validStyle(request.style)) =>
          /\ responses[1].status = 400
          /\ calls = <<>>
    /\ \A i \in 1..Len(responses) :
          responses[i].cacheControl # "none" => responses[i].status = 200

C22_Witness ==
    /\ Answered22
    /\ request.handler = "ensStats"
    /\ request.ens = SubjectName
    /\ calls = <<"getEnsAddress", "getPYUSDBalance">>
    /\ resolvedAddress = SubjectAddress
    /\ responses = <<Svg("public, max-age=300")>>

----------------------------------------------------------------------------
(* The batches of resolveAddressesToENS *)

EnsCall == request.handler = "resolveAddressesToENS"

\* C24: the lookups in flight are at most 5 and belong to one batch; the
\* lookups started so far are those of the batches up to the current one, so
\* none of the next batch is started while one of this batch is outstanding;
\* the map returned has exactly one entry, a name or null, under the
\* lower-cased key of every input address.
C24_BatchesOfFive ==
    EnsCall =>
        /\ Cardinality(ensPending) <= batchSize
        /\ ensPending # {} => hpc = "ensAwait"
        /\ ensI % batchSize = 0
        /\ Len(calls) =
              Min(Len(request.addresses),
                  IF hpc = "ensAwait" THEN ensI + batchSize ELSE ensI)
        /\ hpc = "ensDone" =>
              /\ { e[1] : e \in ensMap } =
                    { ToLowerCase(request.addresses[i]) : i \in 1..Len(request.addresses) }
              /\ \A e, f \in ensMap : e[1] = f[1] => e = f

C24_Witness ==
    /\ EnsCall
    /\ Len(request.addresses) > batchSize
    /\ hpc = "ensAwait"
    /\ ensI = 0
    /\ Cardinality(ensPending) = batchSize
    /\ Len(calls) = batchSize

----------------------------------------------------------------------------
(* The donation page *)

\* C25: the promise of waitForTransaction is resolved only when a poll has
\* seen a receipt with status '0x1', rejected as failed only on a receipt with
\* another status, as error only on a polling error, and with the timeout when
\* 120 seconds pass with no receipt or error seen; the first receipt or error
\* seen settles it; once a receipt or an error has been seen, or the timeout has
\* fired, no poll is started; a settlement is never changed by what comes
\* later; and a pending promise is always settled in the end.
C25_WaitAlwaysSettles ==
    /\ [](/\ settled = "resolved" => "0x1" \in seen
          /\ settled = "failed" => "0x0" \in seen
          /\ settled = "error" => "error" \in seen
          /\ settled = "timeout" => timeoutFired
          /\ seen # {} => settled \notin {"none", "pending"}
          /\ (timeoutFired /\ seen = {}) => settled = "timeout"
          /\ (seen # {} \/ timeoutFired) => ~checkInterval)
    /\ [][/\ (seen # {} \/ timeoutFired) => inFlight' <= inFlight
          /\ (settled \notin {"none", "pending"} /\ dpc' # "awaitReceipt")
                => settled' = settled]_vars
    /\ (settled = "pending") ~> (settled \in {"resolved", "failed", "error", "timeout"})

C25_Witness ==
    /\ settled = "resolved"
    /\ timeoutFired
    /\ seen = {"0x1", "0x0", "error"}
    /\ shown = "donated"

\* C26: at most one call of donatePYUSD is in progress and the button is
\* disabled while it is; every attempt issues eth_sendTransaction at most once;
\* the success message is shown only after a receipt with status '0x1'; the
\* button is enabled again only by the failure of the attempt; after the
\* success message nothing more is sent and the button stays disabled.
C26_OneDonationAtATime ==
    /\ [](/\ inProgress <= 1
          /\ inProgress = 1 <=> dpc \notin {"idle", "off"}
          /\ inProgress = 1 => btnDisabled
          /\ \A i, j \in 1..Len(sends) : sends[i] = sends[j] => i = j
          /\ shown = "donated" =>
                (settled = "resolved" /\ "0x1" \in seen /\ btnDisabled /\ inProgress = 0))
    /\ [][/\ (btnDisabled /\ ~btnDisabled') => (shown' = "error" /\ inProgress' = 0)
          /\ shown = "donated" => (sends' = sends /\ shown' = shown /\ attempt' = attempt)]_vars

C26_Witness ==
    /\ shown = "donated"
    /\ btnDisabled
    /\ attempt = 2
    /\ sends = <<1, 2>>
    /\ inProgress = 0

----------------------------------------------------------------------------
(* The responses of the dashboard *)

DashboardAnswer ==
    /\ IsDashboard => (Len(responses) <= 1 /\ (hpc = "done" <=> Len(responses) = 1))
    /\ (IsDashboard /\ hpc = "done" /\ responses[1].status \in {400, 405})
          => calls = <<>>

\* C27 as stated: every invocation of the dashboard sends exactly one
\* response, which is 400 (ens and address missing, or style invalid), 404,
\* 200 with the SVG, or 500; a 400 is sent before any upstream call; and, every
\* upstream call returning or failing, the response is sent in the end.
C27_ExactlyOneOfFour ==
    /\ []DashboardAnswer
    /\ []((IsDashboard /\ hpc = "done") =>
            /\ responses[1].status \in {400, 404, 200, 500}
            /\ responses[1].status = 200 => responses[1] = Svg("public, max-age=60")
            /\ responses[1].status = 400 =>
                  \/ request.ens = Undefined /\ request.address = Undefined
                  \/ ~validStyle(request.style))
    /\ IsDashboard ~> (hpc = "done")

\* C27 as amended: exactly one response on every path, sent in the end when
\* every upstream call returns or fails; the Express route answers 400 (ens and
\* address missing, style invalid, or neither ens nor address a string), 404,
\* 200 with the SVG or 500, and the serverless handler moreover 200 with no
\* body to OPTIONS and 405 to every method but GET; 400 and 405 are sent before
\* any upstream call.
C27_ExactlyOneResponse ==
    /\ []DashboardAnswer
    /\ []((IsDashboard /\ hpc = "done") =>
            /\ responses[1].status \in {400, 404, 405, 200, 500}
            /\ responses[1].status = 405 =>
                  (request.handler = "handler" /\ request.verb \notin {"GET", "OPTIONS"})
            /\ responses[1].status = 200 =>
                  IF request.handler = "handler" /\ request.verb = "OPTIONS"
                  THEN responses[1] = Ended /\ calls = <<>>
                  ELSE responses[1] = Svg("public, max-age=60")
            /\ responses[1].status = 400 =>
                  \/ request.ens = Undefined /\ request.address = Undefined
                  \/ ~validStyle(request.style)
                  \/ /\ request.ens \in {Undefined, NotAString}
                     /\ request.address \in {Undefined, NotAString})
    /\ [][responses # <<>> => responses' = responses]_responses
    /\ IsDashboard ~> (hpc = "done")

C27_Witness ==
    /\ request.handler = "gitPayDashboard"
    /\ hpc = "done"
    /\ calls = <<"getEnsName", "fetchTransactionsForAddress">>
    /\ responses = <<Svg("public, max-age=60")>>

\* the lookups started and not yet completed or failed
LookupsOutstanding ==
    IF fpc \in {"loop", "awaitTx", "resolved"} THEN Len(lookups) - (idx - 1)
    ELSE Len(lookups)

SequentialLookups ==
    /\ LookupsOutstanding \in {0, 1}
    /\ LookupsOutstanding = 1 <=> fpc = "awaitTx"
    /\ lookups # <<>> =>
          /\ Len(lookups) <= Len(pyusdOnly(uniqueTransfers(Returned)))
          /\ \A i \in 1..Len(lookups) :
                lookups[i] = pyusdOnly(uniqueTransfers(Returned))[i].hash

\* C28: in one call at most one getTransaction call is outstanding at any
\* time; the lookups are started in the order of the merged list, the
\* transfers of the TO query before those of the FROM query, and a lookup is
\* started only when the one before it has returned or thrown.
C28_LookupsSequential ==
    /\ []SequentialLookups
    /\ [][lookups' # lookups =>
            /\ LookupsOutstanding = 0
            /\ Len(lookups') = Len(lookups) + 1
            /\ SubSeq(lookups', 1, Len(lookups)) = lookups]_lookups

C28_Witness ==
    /\ fpc = "awaitTx"
    /\ Len(lookups) = 2
    /\ ~getTransaction(lookups[1]).ok
    /\ toResponse.transfers # <<>>
    /\ fromResponse.transfers # <<>>
    /\ lookups[1] = toResponse.transfers[1].hash
    /\ lookups[2] = fromResponse.transfers[1].hash

\* the index in the merged list of the first transfer with the hash h
FirstWithHash(h) ==
    CHOOSE i \in 1..Len(Returned) :
        /\ Returned[i].hash = h
        /\ \A j \in 1..(i - 1) : Returned[j].hash # h

\* C29: of the transfers that share a transaction hash only the first in
\* merged order is kept, one of the TO query before one of the FROM query,
\* whatever the from, to and value of the others are; the kept transfers
\* stay in their order.
C29_FirstOfAHashKept ==
    fpc \in {"loop", "awaitTx", "resolved"} =>
        /\ \A h \in HashesOf(Returned) :
              IF IsPyusd(Returned[FirstWithHash(h)])
              THEN /\ Cardinality({ k \in 1..Len(pyusdTransfers) :
                                      pyusdTransfers[k].hash = h }) = 1
                   /\ \E k \in 1..Len(pyusdTransfers) :
                         pyusdTransfers[k] = Returned[FirstWithHash(h)]
              ELSE \A k \in 1..Len(pyusdTransfers) : pyusdTransfers[k].hash # h
        /\ HashesOf(pyusdTransfers) \subseteq HashesOf(Returned)
        /\ \A k1, k2 \in 1..Len(pyusdTransfers) :
              k1 < k2 => FirstWithHash(pyusdTransfers[k1].hash)
                           < FirstWithHash(pyusdTransfers[k2].hash)

C29_Witness ==
    /\ fpc = "loop"
    /\ Len(toResponse.transfers) = 2
    /\ Len(fromResponse.transfers) = 1
    /\ toResponse.transfers[1].hash = "h4"
    /\ toResponse.transfers[2].hash = "h1"
    /\ fromResponse.transfers[1].hash = "h1"
    /\ toResponse.transfers[2].value = 5
    /\ fromResponse.transfers[1].value = 7
    /\ fromResponse.transfers[1].to # toResponse.transfers[2].to
    /\ pyusdTransfers = toResponse.transfers

\* C30: the statistics are computed from the list fetchTransactionsForAddress
\* returns, which holds at most 10 entries, so receivedCount and donatedCount
\* are at most 10 and each total is the sum over at most 10 entries, however
\* many tagged transfers the address has.
C30_StatsOverAtMostTen ==
    StatsComputed =>
        /\ Len(transactions) <= 10
        /\ stats = computeStats(transactions, resolvedAddress)
        /\ stats.receivedCount <= 10
        /\ stats.donatedCount <= 10
        /\ Cardinality(ReceivedIdx) <= 10
        /\ Cardinality(DonatedIdx) <= 10
        /\ stats.totalReceived = TokensOver(ReceivedIdx)
        /\ stats.totalDonated = TokensOver(DonatedIdx)

C30_Witness ==
    /\ StatsComputed
    /\ request.handler = "gitPayDashboard"
    /\ Len(ManyReceived) > 10
    /\ \A h \in Range(ReceivedHashes) : TaggedOnChain(h)
    /\ Len(transactions) = 10
    /\ transactions[1].hash = ReceivedHashes[Len(ReceivedHashes)]
    /\ transactions[10].hash = ReceivedHashes[Len(ReceivedHashes) - 9]
    /\ stats.receivedCount = 10
    /\ stats.donatedCount = 0
    /\ stats.totalReceived = 50

====
